---- MODULE Spec2Model ----
(***************************************************************************)
(* Verification model of the dungeon-masters-companion orchestration core: *)
(* the Budget Manager and Executor (orchestrator/executor.py), the Step     *)
(* Engine (LLMStep.run in its three variants), the Orchestrator turn        *)
(* pipeline (orchestrator/pipeline.py), the StoryEngine turn pipeline       *)
(* (orchestrator/runtime_flow/pipeline.py) with its world-state tools, the  *)
(* Tool-Invocation Loop and the gateway calls of LLMAdapter                 *)
(* (orchestrator/llm_interaction/adapter.py, orchestrator/adapter.py) and   *)
(* the BeatTracker.                                                         *)
(*                                                                          *)
(* Each component has its own specification over the shared variables; a    *)
(* specification leaves the variables of the other components untouched.    *)
(***************************************************************************)
EXTENDS Integers, Sequences, FiniteSets, TLC

VARIABLES
    \* ---- BudgetManager / Executor (executor.py) ----
    limits,       \* BudgetManager.limits : dict tool -> int
    usage,        \* BudgetManager.usage  : dict tool -> int
    lastOp,       \* the operation performed by the last step, with its arguments and outcome
    executions,   \* GatherResults.executions of the last Executor.execute
    invoked,      \* per call of the last batch: was the handler called
    \* ---- Step Engine (LLMStep.run) ----
    step,         \* one LLMStep.run call: its configuration, loop position, trace and outcome
    \* ---- Orchestrator (pipeline.py) ----
    orch,         \* the Orchestrator session (history, summary, beats) and its position in run_turn
    \* ---- StoryEngine (runtime_flow/pipeline.py) ----
    eng,          \* the StoryEngine session (history, summary, beats, focus, game_state) and its position in run_turn
    \* ---- LLMAdapter.run_tool_loop (llm_interaction/adapter.py) ----
    loop,         \* one run_tool_loop call: its hooks and executor, loop position, current round and outcome
    \* ---- LLMAdapter gateway calls (adapter.py, llm_interaction/adapter.py) ----
    gw,           \* one request_text / request_json / _chat_with_retry call: attempts made, messages, outcome
    \* ---- BeatTracker (pipeline.py, runtime_flow/session_state.py) ----
    tracker,      \* one BeatTracker: beats, index, and the index before the last advance
    \* ---- Narrate stage (LLMStep.run with the narration validator, then the commit) ----
    narr,         \* one Narrate stage: attempts, corrective notes, returned narrative, committed History
    \* ---- Focus update from Intent (FocusManager.apply_intent, _apply_intent_to_focus) ----
    focus,        \* the focus list, the intent applied last and the focus before it
    \* ---- History (history.py) ----
    hist,         \* one History: turns, summary, and the turns before the last maybe_summarize
    \* ---- SessionSummary (pipeline.py, runtime_flow/session_state.py) ----
    summ,         \* one SessionSummary: ceilings, retained events, and every event ever added
    \* ---- Section-tag codec (parse_sections) ----
    codec,        \* one parse_sections call: the response lines and the decoded sections
    \* ---- Move tool (MoveTool_BasicMCP) ----
    mv            \* the snapshot file, the event log, and the position inside move_impl

budgetVars == <<limits, usage, lastOp, executions, invoked>>

otherVars == <<narr, focus, hist, summ, codec, mv>>

vars == <<limits, usage, lastOp, executions, invoked, step, orch, eng, loop, gw, tracker,
          narr, focus, hist, summ, codec, mv>>

\* ------------------------------------------------------------------------
\* Bounds
\* ------------------------------------------------------------------------
MaxLimit == 2      \* largest configured ceiling
MaxCost  == 2      \* largest cost a call carries
MaxBatch == 2      \* longest batch handed to Executor.execute
MaxStepAttempts == 3     \* largest LLMStep.max_attempts
AdapterMaxAttempts == 2  \* LLMAdapter.max_attempts: backend calls inside one request_text
NumBeats == 3            \* len(beats)
MaxTurns == 2            \* run_turn calls in one session
MaxEngineTurns == 1      \* StoryEngine.run_turn calls in one session
MaxToolCalls == 1        \* tool calls the model requests in one round
MaxIterations == 3       \* largest max_iterations handed to run_tool_loop
MaxLoopCalls == 2        \* tool-call entries in one response inside run_tool_loop
MaxBeats == 4            \* longest beat list of a BeatTracker
MaxAdvanceCalls == 5     \* BeatTracker.advance calls in one run
MaxTargets == 2          \* most targets an intent names
MaxFocusCalls == 2       \* focus updates in one session
MaxAppends == 8          \* turns appended to one History
MaxItems == 2            \* largest SessionSummary.max_items
MaxChars == 20           \* largest SessionSummary.max_chars
MaxAdds == 3             \* SessionSummary.add calls in one run
MaxLines == 3            \* lines of a response handed to parse_sections
MaxMoves == 3            \* move_impl calls in one run

Max(a, b) == IF a >= b THEN a ELSE b

\* ------------------------------------------------------------------------
\* Budget Manager and Executor
\* ------------------------------------------------------------------------
Tools == {"dice", "ghost"}

\* Executor.tools: the registered handlers; "ghost" has no handler
RegisteredTools == {"dice"}

\* ToolCallSpec.budget: absent, a cost that int() rejects, or an integer cost
CallBudgets ==
    {[kind |-> "none", cost |-> 0], [kind |-> "junk", cost |-> 0]}
        \cup {[kind |-> "int", cost |-> n] : n \in 0..MaxCost}

\* ToolCallSpec: the arguments decide whether the handler returns or raises
ToolCalls == [tool : Tools, budget : CallBudgets, arguments : {"good", "bad"}]

\* _extract_cost
ExtractCost(budget) ==
    IF budget.kind = "none" THEN 1
    ELSE IF budget.kind = "junk" THEN 1
    ELSE Max(1, budget.cost)

\* BudgetManager.consume with the ceiling test applied to the usage before the call
ConsumeCheckUsedOnly(lims, use, tool, cost) ==
    IF cost <= 0 THEN [raised |-> FALSE, usage |-> use]
    ELSE IF tool \notin DOMAIN lims THEN [raised |-> FALSE, usage |-> use]
    ELSE IF use[tool] > lims[tool] THEN [raised |-> TRUE, usage |-> use]
    ELSE [raised |-> FALSE, usage |-> [use EXCEPT ![tool] = use[tool] + cost]]

\* BudgetManager.consume that records the usage before it raises
ConsumeChargeThenRaise(lims, use, tool, cost) ==
    IF cost <= 0 THEN [raised |-> FALSE, usage |-> use]
    ELSE IF tool \notin DOMAIN lims THEN [raised |-> FALSE, usage |-> use]
    ELSE [raised |-> use[tool] + cost > lims[tool],
          usage  |-> [use EXCEPT ![tool] = use[tool] + cost]]

\* BudgetManager.consume: the result says whether BudgetError was raised and
\* gives the usage map after the call
BudgetConsume(lims, use, tool, cost) ==
    IF cost <= 0 THEN [raised |-> FALSE, usage |-> use]
    ELSE IF tool \notin DOMAIN lims THEN [raised |-> FALSE, usage |-> use]
    ELSE IF use[tool] + cost > lims[tool] THEN [raised |-> TRUE, usage |-> use]
    ELSE [raised |-> FALSE, usage |-> [use EXCEPT ![tool] = use[tool] + cost]]

\* One iteration of the Executor.execute loop that reports a budget veto as a
\* handler error after calling the handler
ExecuteCallVetoAsError(lims, use, call) ==
    LET c == BudgetConsume(lims, use, call.tool, ExtractCost(call.budget)) IN
    IF c.raised
    THEN [usage |-> c.usage, invoked |-> TRUE,
          execution |-> [tool |-> call.tool, status |-> "error", error |-> "handler raised"]]
    ELSE IF call.tool \notin RegisteredTools
    THEN [usage |-> c.usage, invoked |-> FALSE,
          execution |-> [tool |-> call.tool, status |-> "error", error |-> "unknown tool"]]
    ELSE IF call.arguments = "good"
    THEN [usage |-> c.usage, invoked |-> TRUE,
          execution |-> [tool |-> call.tool, status |-> "ok", error |-> "none"]]
    ELSE [usage |-> c.usage, invoked |-> TRUE,
          execution |-> [tool |-> call.tool, status |-> "error", error |-> "handler raised"]]

\* One iteration of the Executor.execute loop for one call: consume the
\* budget, look the handler up, run it
ExecuteCall(lims, use, call) ==
    LET c == BudgetConsume(lims, use, call.tool, ExtractCost(call.budget)) IN
    IF c.raised
    THEN [usage |-> c.usage, invoked |-> FALSE,
          execution |-> [tool |-> call.tool, status |-> "rejected", error |-> "budget exceeded"]]
    ELSE IF call.tool \notin RegisteredTools
    THEN [usage |-> c.usage, invoked |-> FALSE,
          execution |-> [tool |-> call.tool, status |-> "error", error |-> "unknown tool"]]
    ELSE IF call.arguments = "good"
    THEN [usage |-> c.usage, invoked |-> TRUE,
          execution |-> [tool |-> call.tool, status |-> "ok", error |-> "none"]]
    ELSE [usage |-> c.usage, invoked |-> TRUE,
          execution |-> [tool |-> call.tool, status |-> "error", error |-> "handler raised"]]

\* The loop of Executor.execute over gather_output.tool_calls, from call i on
RECURSIVE ExecuteLoop(_, _, _, _)
ExecuteLoop(lims, batch, i, acc) ==
    IF i > Len(batch) THEN acc
    ELSE LET r == ExecuteCall(lims, acc.usage, batch[i]) IN
         ExecuteLoop(lims, batch, i + 1,
                     [usage      |-> r.usage,
                      executions |-> Append(acc.executions, r.execution),
                      invoked    |-> Append(acc.invoked, r.invoked),
                      before     |-> Append(acc.before, acc.usage)])

Batches == UNION {[1..n -> ToolCalls] : n \in 0..MaxBatch}

NoOp == [kind |-> "none"]

\* no LLMStep.run call in progress
StepIdle == [status |-> "idle"]

\* no Orchestrator constructed
OrchIdle == [pc |-> "off"]

\* no StoryEngine constructed
EngIdle == [pc |-> "off"]

\* run_tool_loop not called
LoopIdle == [status |-> "off"]

\* no gateway call in progress
GwIdle == [status |-> "off"]

\* no BeatTracker constructed
TrackerIdle == [status |-> "off"]

\* The components below are idle (not constructed) in a specification of another component.
NarrIdle == [status |-> "off"]

FocusIdle == [status |-> "off"]

HistIdle == [status |-> "off"]

SummIdle == [status |-> "off"]

CodecIdle == [status |-> "off"]

MvIdle == [status |-> "off"]

OthersIdle ==
    /\ narr = NarrIdle
    /\ focus = FocusIdle
    /\ hist = HistIdle
    /\ summ = SummIdle
    /\ codec = CodecIdle
    /\ mv = MvIdle

BudgetInit ==
    /\ limits \in UNION {[S -> 0..MaxLimit] : S \in SUBSET Tools}
    /\ usage = [t \in DOMAIN limits |-> 0]
    /\ lastOp = NoOp
    /\ executions = <<>>
    /\ invoked = <<>>
    /\ step = StepIdle
    /\ orch = OrchIdle
    /\ eng = EngIdle
    /\ loop = LoopIdle
    /\ gw = GwIdle
    /\ tracker = TrackerIdle
    /\ OthersIdle

\* A direct BudgetManager.consume(tool, cost) call
Consume ==
    /\ lastOp = NoOp
    /\ \E tool \in Tools, cost \in (-1)..MaxCost :
        LET c == BudgetConsume(limits, usage, tool, cost) IN
        /\ usage' = c.usage
        /\ lastOp' = [kind |-> "consume", tool |-> tool, cost |-> cost, raised |-> c.raised]
        /\ UNCHANGED <<limits, executions, invoked, step, orch, eng, loop, gw, tracker, otherVars>>

\* Executor.execute(gather_output): the whole batch
Execute ==
    /\ lastOp = NoOp
    /\ \E batch \in Batches :
        LET r == ExecuteLoop(limits, batch, 1,
                             [usage |-> usage, executions |-> <<>>,
                              invoked |-> <<>>, before |-> <<>>]) IN
        /\ usage' = r.usage
        /\ executions' = r.executions
        /\ invoked' = r.invoked
        /\ lastOp' = [kind |-> "execute", batch |-> batch, before |-> r.before]
        /\ UNCHANGED <<limits, step, orch, eng, loop, gw, tracker, otherVars>>

\* The caller takes the outcome of the call; the next call can start
Return ==
    /\ lastOp # NoOp
    /\ lastOp' = NoOp
    /\ executions' = <<>>
    /\ invoked' = <<>>
    /\ UNCHANGED <<limits, usage, step, orch, eng, loop, gw, tracker, otherVars>>

BudgetNext == Consume \/ Execute \/ Return

BudgetIdle ==
    /\ limits = <<>>
    /\ usage = <<>>
    /\ lastOp = NoOp
    /\ executions = <<>>
    /\ invoked = <<>>

SpecBudget == BudgetInit /\ [][BudgetNext]_vars

\* ------------------------------------------------------------------------
\* Step Engine: LLMStep.run in orchestrator/pipeline.py ("pipeline"),
\* orchestrator/llm_interaction/step.py ("llm_interaction") and
\* orchestrator/runtime_flow/step.py ("runtime_flow")
\* ------------------------------------------------------------------------
StepEngines == {"pipeline", "llm_interaction", "runtime_flow"}

\* LLMStep.validator: absent, or a callable that never raises, always raises,
\* or raises on the responses that break the stage contract
ValidatorKinds == {"none", "always_pass", "always_raise", "by_text"}

\* What one adapter.request_text call does: it raises LLMError (every backend
\* call came back empty), or it returns text after some empty backend
\* responses; the text satisfies the stage contract or not, and the parser
\* accepts the decoded sections or raises
GatewayOutcomes ==
    {[kind |-> "raise", valid |-> FALSE, parseOk |-> FALSE, empties |-> 0]}
        \cup [kind : {"text"}, valid : BOOLEAN, parseOk : BOOLEAN,
              empties : 0..(AdapterMaxAttempts - 1)]

\* self.validator(sections) raises
ValidatorRaises(validator, outcome) ==
    \/ validator = "always_raise"
    \/ validator = "by_text" /\ ~outcome.valid

\* `continue` with a loop that runs one iteration short
AfterContinueOneShort(attempt, maxAttempts) ==
    IF attempt + 1 >= maxAttempts THEN "failed" ELSE "running"

\* `continue` in the attempt loop: the next iteration, or the LLMError raised
\* after the loop when attempt was the last one
AfterContinue(attempt, maxAttempts) ==
    IF attempt >= maxAttempts THEN "failed" ELSE "running"

\* the ollama.chat calls one adapter.request_text call makes: max_attempts of
\* them when it raises, else one per empty response and one for the text
BackendCallsOf(g) ==
    IF g.kind = "raise" THEN AdapterMaxAttempts ELSE g.empties + 1

\* adapter.request_text is called once more
Called(s, g) ==
    [s EXCEPT !.calls = @ + 1,
              !.backendCalls = @ + BackendCallsOf(g),
              !.onlyEmpty = @ /\ g.kind = "raise"]

\* the records appended for the failed adapter attempts (all but the last)
RECURSIVE EmptyRecords(_, _)
EmptyRecords(trace, n) ==
    IF n = 0 THEN trace
    ELSE EmptyRecords(Append(trace, [attempt |-> Len(trace) + 1, kind |-> "empty"]), n - 1)

StepInit ==
    /\ BudgetIdle
    /\ OthersIdle
    /\ loop = LoopIdle
    /\ gw = GwIdle
    /\ tracker = TrackerIdle
    /\ orch = OrchIdle
    /\ eng = EngIdle
    /\ step \in [status : {"running"},
                 engine : StepEngines,
                 max_attempts : 1..MaxStepAttempts,
                 validator : ValidatorKinds,
                 forced_retry_pending : BOOLEAN,
                 attempt : {1},
                 calls : {0},
                 backendCalls : {0},
                 onlyEmpty : {TRUE},
                 attempts : {<<>>},
                 gatewayRaised : {FALSE},
                 parserRaised : {FALSE},
                 forcedRetry : {FALSE}]
    /\ step.engine # "runtime_flow" => ~step.forced_retry_pending

\* One iteration of the loop of LLMStep.run in orchestrator/pipeline.py
PipelineStepAttempt ==
    /\ UNCHANGED <<budgetVars, orch, eng, loop, gw, tracker, otherVars>>
    /\ step.status = "running"
    /\ step.engine = "pipeline"
    /\ \E g \in GatewayOutcomes :
        LET called == Called(step, g) IN
        IF g.kind = "raise"
        THEN step' = [called EXCEPT !.status = "gateway_error", !.gatewayRaised = TRUE]
        ELSE IF step.validator # "none" /\ ValidatorRaises(step.validator, g)
        THEN step' = [called EXCEPT
                        !.attempts = Append(@, [kind |-> "invalid"]),
                        !.status = AfterContinue(step.attempt, step.max_attempts),
                        !.attempt = @ + 1]
        ELSE IF ~g.parseOk
        THEN step' = [called EXCEPT !.status = "parser_error", !.parserRaised = TRUE]
        ELSE step' = [called EXCEPT !.status = "returned"]

\* One iteration of the loop of LLMStep.run in orchestrator/llm_interaction/step.py
LlmInteractionStepAttempt ==
    /\ UNCHANGED <<budgetVars, orch, eng, loop, gw, tracker, otherVars>>
    /\ step.status = "running"
    /\ step.engine = "llm_interaction"
    /\ \E g \in GatewayOutcomes :
        LET called == Called(step, g) IN
        IF g.kind = "raise"
        THEN step' = [called EXCEPT !.status = "gateway_error", !.gatewayRaised = TRUE]
        ELSE IF (step.validator # "none" /\ ValidatorRaises(step.validator, g)) \/ ~g.parseOk
        THEN step' = [called EXCEPT
                        !.attempts = Append(@, [attempt |-> step.attempt, kind |-> "invalid"]),
                        !.parserRaised = @ \/ ~(step.validator # "none" /\ ValidatorRaises(step.validator, g)),
                        !.status = AfterContinue(step.attempt, step.max_attempts),
                        !.attempt = @ + 1]
        ELSE step' = [called EXCEPT
                        !.attempts = Append(@, [attempt |-> step.attempt, kind |-> "parsed"]),
                        !.status = "returned"]

\* One iteration of the loop of LLMStep.run in orchestrator/runtime_flow/step.py
RuntimeFlowStepAttempt ==
    /\ UNCHANGED <<budgetVars, orch, eng, loop, gw, tracker, otherVars>>
    /\ step.status = "running"
    /\ step.engine = "runtime_flow"
    /\ \E g \in GatewayOutcomes :
        LET called == Called(step, g)
            recorded == EmptyRecords(step.attempts, g.empties)
            validatorRaised == step.validator # "none" /\ ValidatorRaises(step.validator, g)
        IN
        IF g.kind = "raise"
        THEN step' = [called EXCEPT
                        !.attempts = Append(@, [attempt |-> step.attempt, kind |-> "adapter_error"]),
                        !.gatewayRaised = TRUE,
                        !.status = AfterContinue(step.attempt, step.max_attempts),
                        !.attempt = @ + 1]
        ELSE IF validatorRaised \/ ~g.parseOk \/ step.forced_retry_pending
        THEN step' = [called EXCEPT
                        !.attempts = Append(recorded, [attempt |-> Len(recorded) + 1, kind |-> "invalid"]),
                        !.parserRaised = @ \/ (~validatorRaised /\ ~g.parseOk),
                        !.forced_retry_pending = @ /\ (validatorRaised \/ ~g.parseOk),
                        !.forcedRetry = @ \/ (~validatorRaised /\ g.parseOk),
                        !.status = AfterContinue(step.attempt, step.max_attempts),
                        !.attempt = @ + 1]
        ELSE step' = [called EXCEPT
                        !.attempts = Append(recorded, [attempt |-> Len(recorded) + 1, kind |-> "parsed"]),
                        !.status = "returned"]

StepNext == PipelineStepAttempt \/ LlmInteractionStepAttempt \/ RuntimeFlowStepAttempt

SpecStep == StepInit /\ [][StepNext]_vars

\* ------------------------------------------------------------------------
\* Orchestrator.run_turn (orchestrator/pipeline.py)
\* ------------------------------------------------------------------------

\* str.lower() on the texts a verdict section can hold
Lower(text) ==
    CASE text = "Approve" -> "approve"
      [] text = "Revise"  -> "revise"
      [] OTHER            -> text

\* the verdict texts _validate_validation_step lets through
ValidatedVerdicts == {"approve", "Approve", "revise", "Revise"}

\* what one LLMStep.run call of a stage ends with
StageOutcomes == {"parsed", "LLMError"}

\* an advance whose bound test is off by one
BeatAdvanceOffByOne(index, numBeats) ==
    IF index + 1 <= numBeats THEN index + 1 ELSE index

\* BeatTracker.advance: the index after the call
BeatAdvance(index, numBeats) ==
    IF index + 1 < numBeats THEN index + 1 ELSE index

\* SessionSummary.add on a summary without ceilings: blank text adds nothing
SummaryAdd(events, label, text) ==
    IF text = "blank" THEN events ELSE Append(events, label)

OrchInit ==
    /\ BudgetIdle
    /\ OthersIdle
    /\ loop = LoopIdle
    /\ gw = GwIdle
    /\ tracker = TrackerIdle
    /\ step = StepIdle
    /\ eng = EngIdle
    /\ orch = [pc |-> "idle",
            history |-> <<>>,
            summary |-> <<>>,
            beatIndex |-> 0,
            turn_index |-> 0,
            turns |-> 0,
            player_input |-> "none",
            verdict |-> "none", notes |-> "none", advance |-> FALSE,
            firstVerdict |-> "none",
            planRuns |-> 0, validateRuns |-> 0, notesInPlanPrompt |-> FALSE,
            historyBefore |-> <<>>, summaryBefore |-> <<>>, beatBefore |-> 0,
            last |-> "none", failedStage |-> "none"]

\* a fatal stage error leaves run_turn through the stage named
OrchAbort(o, stage) == [o EXCEPT !.pc = "idle", !.last = "aborted", !.failedStage = stage]

\* lines 334-335: the beat advances when the validator asked for it and approved
OrchAfterValidate(o, verdict, advance) ==
    IF advance /\ Lower(verdict) = "approve"
    THEN [o EXCEPT !.beatIndex = BeatAdvance(@, NumBeats), !.pc = "narrate"]
    ELSE [o EXCEPT !.pc = "narrate"]

\* run_turn is called; the Intent step runs, the intent is applied
OrchIntent ==
    /\ UNCHANGED <<budgetVars, step, eng, loop, gw, tracker, otherVars>>
    /\ orch.pc = "idle"
    /\ orch.turns < MaxTurns
    /\ \E input \in {"text", "blank"}, outcome \in StageOutcomes :
        LET started == [orch EXCEPT
                          !.turns = @ + 1,
                          !.player_input = input,
                          !.verdict = "none", !.notes = "none", !.advance = FALSE,
                          !.firstVerdict = "none",
                          !.planRuns = 0, !.validateRuns = 0, !.notesInPlanPrompt = FALSE,
                          !.historyBefore = orch.history, !.summaryBefore = orch.summary,
                          !.beatBefore = orch.beatIndex,
                          !.last = "running", !.failedStage = "none"] IN
        IF outcome = "LLMError"
        THEN orch' = OrchAbort(started, "intent")
        ELSE orch' = [started EXCEPT !.pc = "focus"]

\* the optional Focus step (its failure is swallowed), then the player turn
\* is recorded in History and in the SessionSummary
OrchFocus ==
    /\ UNCHANGED <<budgetVars, step, eng, loop, gw, tracker, otherVars>>
    /\ orch.pc = "focus"
    /\ \E outcome \in StageOutcomes :
        orch' = [orch EXCEPT
                   !.history = Append(@, [role |-> "player", turn |-> orch.turns]),
                   !.summary = SummaryAdd(@, "Player", orch.player_input),
                   !.pc = "status"]

\* the Status step; its failure is swallowed
OrchStatus ==
    /\ UNCHANGED <<budgetVars, step, eng, loop, gw, tracker, otherVars>>
    /\ orch.pc = "status"
    /\ \E outcome \in StageOutcomes :
        orch' = [orch EXCEPT !.pc = "plan"]

\* the Plan step
OrchPlan ==
    /\ UNCHANGED <<budgetVars, step, eng, loop, gw, tracker, otherVars>>
    /\ orch.pc = "plan"
    /\ \E outcome \in StageOutcomes :
        IF outcome = "LLMError"
        THEN orch' = OrchAbort([orch EXCEPT !.planRuns = @ + 1], "plan")
        ELSE orch' = [orch EXCEPT !.planRuns = @ + 1, !.pc = "validate"]

\* the Validate step; on approve the beat may advance, on revise the plan is retried
OrchValidate ==
    /\ UNCHANGED <<budgetVars, step, eng, loop, gw, tracker, otherVars>>
    /\ orch.pc = "validate"
    /\ \E outcome \in StageOutcomes, verdict \in ValidatedVerdicts,
          notes \in {"no northern exit"}, advance \in BOOLEAN :
        LET ran == [orch EXCEPT !.validateRuns = @ + 1] IN
        IF outcome = "LLMError"
        THEN orch' = OrchAbort(ran, "validate")
        ELSE LET got == [ran EXCEPT !.verdict = verdict, !.notes = notes,
                                    !.advance = advance, !.firstVerdict = verdict] IN
             IF Lower(verdict) = "revise"
             THEN orch' = [got EXCEPT !.pc = "replan"]
             ELSE orch' = OrchAfterValidate(got, verdict, advance)

\* the Plan step re-run with the validator notes appended to the plan prompt
OrchReplan ==
    /\ UNCHANGED <<budgetVars, step, eng, loop, gw, tracker, otherVars>>
    /\ orch.pc = "replan"
    /\ \E outcome \in StageOutcomes :
        LET ran == [orch EXCEPT !.planRuns = @ + 1, !.notesInPlanPrompt = TRUE] IN
        IF outcome = "LLMError"
        THEN orch' = OrchAbort(ran, "plan")
        ELSE orch' = [ran EXCEPT !.pc = "revalidate"]

\* the Validate step re-run on the new plan
OrchRevalidate ==
    /\ UNCHANGED <<budgetVars, step, eng, loop, gw, tracker, otherVars>>
    /\ orch.pc = "revalidate"
    /\ \E outcome \in StageOutcomes, verdict \in ValidatedVerdicts,
          notes \in {"still no exit"}, advance \in BOOLEAN :
        LET ran == [orch EXCEPT !.validateRuns = @ + 1] IN
        IF outcome = "LLMError"
        THEN orch' = OrchAbort(ran, "validate")
        ELSE orch' = OrchAfterValidate(
                        [ran EXCEPT !.verdict = verdict, !.notes = notes, !.advance = advance],
                        verdict, advance)

\* the Narrate step, then the commit of the narration
OrchNarrate ==
    /\ UNCHANGED <<budgetVars, step, eng, loop, gw, tracker, otherVars>>
    /\ orch.pc = "narrate"
    /\ \E outcome \in StageOutcomes :
        IF outcome = "LLMError"
        THEN orch' = OrchAbort(orch, "narrate")
        ELSE orch' = [orch EXCEPT
                        !.summary = SummaryAdd(@, "Recap", "narrative"),
                        !.history = Append(@, [role |-> "dm", turn |-> orch.turns]),
                        !.turn_index = @ + 1,
                        !.last = "completed",
                        !.pc = "idle"]

OrchNext ==
    \/ OrchIntent \/ OrchFocus \/ OrchStatus \/ OrchPlan \/ OrchValidate
    \/ OrchReplan \/ OrchRevalidate \/ OrchNarrate

SpecOrch == OrchInit /\ [][OrchNext]_vars

\* ------------------------------------------------------------------------
\* StoryEngine.run_turn (orchestrator/runtime_flow/pipeline.py) and the
\* world-state tools (orchestrator/world_state/tools.py)
\* ------------------------------------------------------------------------

\* a small story graph: three locations in a line, one NPC
Locations == {"Square", "Market", "Cellar"}
Npcs == {"Mitch"}
NodeKeys == Locations \cup Npcs

\* StoryNode.node_type
NodeTypeOf(key) == IF key \in Locations THEN "location" ELSE "npc"

\* StoryNode.connections
ConnectionsOf(key) ==
    CASE key = "Square" -> {"Market"}
      [] key = "Market" -> {"Square", "Cellar"}
      [] key = "Cellar" -> {"Market"}
      [] OTHER          -> {"Square"}

\* dict assignment d[key] = value
DictPut(d, key, value) ==
    [k \in DOMAIN d \cup {key} |-> IF k = key THEN value ELSE d[k]]

\* the keys a StoryGraph can have as initial_keys[0]: any node key the caller
\* names first (StoryGraph.__init__ keeps every key that is in by_key)
StartKeys == {"Square", "Mitch"}

\* create_initial_game_state: the player is put at initial_keys[0]
InitialGameState(initial_key) ==
    [player_location |-> initial_key, discovered_keys |-> {initial_key},
     npc_locations |-> <<>>]

\* the successive values of game_state.player_location, extended when gs differs
\* from the last one recorded
Moved(trail, gs) ==
    IF gs.player_location = trail[Len(trail)] THEN trail
    ELSE Append(trail, gs.player_location)

\* move_to_location
MoveToLocation(location_key, gs) ==
    IF location_key \notin NodeKeys
    THEN [success |-> FALSE, game_state |-> gs]
    ELSE IF NodeTypeOf(location_key) # "location"
    THEN [success |-> FALSE, game_state |-> gs]
    ELSE IF gs.player_location \notin NodeKeys
    THEN [success |-> FALSE, game_state |-> gs]
    ELSE IF location_key = gs.player_location
    THEN [success |-> TRUE, game_state |-> gs]
    ELSE IF location_key \notin ConnectionsOf(gs.player_location)
    THEN [success |-> FALSE, game_state |-> gs]
    ELSE [success |-> TRUE,
          game_state |-> [gs EXCEPT !.player_location = location_key,
                                    !.discovered_keys = @ \cup {location_key}]]

\* move_npc
MoveNpc(npc_key, new_location, gs) ==
    IF npc_key \notin NodeKeys THEN [success |-> FALSE, game_state |-> gs]
    ELSE IF NodeTypeOf(npc_key) # "npc" THEN [success |-> FALSE, game_state |-> gs]
    ELSE IF new_location \notin NodeKeys THEN [success |-> FALSE, game_state |-> gs]
    ELSE IF NodeTypeOf(new_location) # "location" THEN [success |-> FALSE, game_state |-> gs]
    ELSE [success |-> TRUE,
          game_state |-> [gs EXCEPT !.npc_locations = DictPut(@, npc_key, new_location)]]

\* check_can_interact: reads the game state, result success flag
CheckCanInteract(entity_key, gs) ==
    IF entity_key \notin NodeKeys THEN [success |-> FALSE, game_state |-> gs]
    ELSE IF NodeTypeOf(entity_key) = "location" /\ gs.player_location \notin NodeKeys
    THEN [success |-> FALSE, game_state |-> gs]
    ELSE [success |-> TRUE, game_state |-> gs]

\* the tool calls a model response can carry: any tool name, any arguments
\* ("missing": the argument is absent, or the argument string was not JSON)
ToolRequests ==
    [name : {"check_can_interact"}, a : {"Mitch", "Cellar", "missing"}, b : {"missing"}]
      \cup [name : {"get_current_context", "bogus"}, a : {"missing"}, b : {"missing"}]
      \cup [name : {"move_to_location"}, a : {"Market", "Cellar", "missing"}, b : {"missing"}]
      \cup [name : {"move_npc"}, a : {"Mitch"}, b : {"Market", "missing"}]

\* execute_tool: dispatch by name; arguments[...] raises KeyError when absent
ExecuteTool(req, gs) ==
    IF req.name = "check_can_interact"
    THEN IF req.a = "missing" THEN [raised |-> TRUE, success |-> FALSE, game_state |-> gs]
         ELSE [raised |-> FALSE] @@ CheckCanInteract(req.a, gs)
    ELSE IF req.name = "move_to_location"
    THEN IF req.a = "missing" THEN [raised |-> TRUE, success |-> FALSE, game_state |-> gs]
         ELSE [raised |-> FALSE] @@ MoveToLocation(req.a, gs)
    ELSE IF req.name = "get_current_context"
    THEN [raised |-> FALSE, success |-> TRUE, game_state |-> gs]
    ELSE IF req.name = "move_npc"
    THEN IF req.a = "missing" \/ req.b = "missing"
         THEN [raised |-> TRUE, success |-> FALSE, game_state |-> gs]
         ELSE [raised |-> FALSE] @@ MoveNpc(req.a, req.b, gs)
    ELSE [raised |-> FALSE, success |-> FALSE, game_state |-> gs]

\* the loop "for tool_call in tool_calls" of the Validate stage, from call i on
RECURSIVE EngRunToolCalls(_, _, _)
EngRunToolCalls(calls, i, acc) ==
    IF i > Len(calls) \/ acc.raised THEN acc
    ELSE LET r == ExecuteTool(calls[i], acc.game_state) IN
         EngRunToolCalls(calls, i + 1,
                         [raised |-> r.raised,
                          game_state |-> r.game_state,
                          trail |-> Moved(acc.trail, r.game_state),
                          results |-> IF r.raised THEN acc.results
                                      ELSE Append(acc.results, r.success)])

ToolCallLists == UNION {[1..n -> ToolRequests] : n \in 1..MaxToolCalls}

\* the sections a final Validate response can decode to
VerdictTexts == {"missing", "approve", "Approve", "revise", "maybe"}
AdvanceTexts == {"missing", "yes", "no"}

\* the validate parser of build_steps: s.get("verdict", "approve")
ParseVerdict(verdictText) == IF verdictText = "missing" THEN "approve" ELSE verdictText

\* the validate parser of build_steps: s.get("advance", "").lower().startswith("y")
ParseAdvance(advanceText) == advanceText = "yes"

\* the intents parse_intent can return: action, first target, implicit_move
Intents == [action : {"move", "talk"},
            target : {"none", "Market", "Cellar", "Mitch", "Nowhere"},
            implicit_move : BOOLEAN]

max_validate_iterations == 3

EngInit ==
    /\ BudgetIdle
    /\ OthersIdle
    /\ loop = LoopIdle
    /\ gw = GwIdle
    /\ tracker = TrackerIdle
    /\ step = StepIdle
    /\ orch = OrchIdle
    /\ \E initial_key \in StartKeys :
       eng = [pc |-> "idle",
           history |-> <<>>,
           summary |-> <<>>,
           beatIndex |-> 0,
           turn_index |-> 0,
           turns |-> 0,
           current_focus |-> <<initial_key>>,
           game_state |-> InitialGameState(initial_key),
           locationBefore |-> initial_key,
           trail |-> <<initial_key>>,
           intent |-> [action |-> "talk", target |-> "none", implicit_move |-> FALSE],
           iteration |-> 0,
           validate_messages |-> <<>>,
           requested |-> 0,
           verdictSection |-> "none",
           verdict |-> "none", advance |-> FALSE,
           firstVerdict |-> "none",
           planRuns |-> 0, validateRuns |-> 0, notesInPlanPrompt |-> FALSE,
           historyBefore |-> <<>>, summaryBefore |-> <<>>, beatBefore |-> 0,
           worldBeforeValidate |-> InitialGameState(initial_key),
           toolRaised |-> FALSE,
           last |-> "none", failedStage |-> "none"]

\* an exception leaves run_turn through the stage named
EngAbort(e, stage) == [e EXCEPT !.pc = "idle", !.last = "aborted", !.failedStage = stage]

\* lines 259-262: the final Validate content is decoded and parsed, without the validator
EngParseValidation(e, verdictText, advanceText) ==
    [e EXCEPT !.verdictSection = verdictText,
              !.verdict = ParseVerdict(verdictText),
              !.advance = ParseAdvance(advanceText),
              !.firstVerdict = IF e.validateRuns = 0 THEN ParseVerdict(verdictText) ELSE @,
              !.validateRuns = @ + 1,
              !.pc = "action"]

\* run_turn is called: the Intent step, then the implicit move
EngIntent ==
    /\ UNCHANGED <<budgetVars, step, orch, loop, gw, tracker, otherVars>>
    /\ eng.pc = "idle"
    /\ eng.turns < MaxEngineTurns
    /\ \E outcome \in StageOutcomes, intent \in Intents :
        LET started == [eng EXCEPT
                          !.turns = @ + 1,
                          !.iteration = 0, !.validate_messages = <<>>, !.requested = 0,
                          !.verdictSection = "none", !.verdict = "none", !.advance = FALSE,
                          !.firstVerdict = "none",
                          !.planRuns = 0, !.validateRuns = 0, !.notesInPlanPrompt = FALSE,
                          !.historyBefore = eng.history, !.summaryBefore = eng.summary,
                          !.beatBefore = eng.beatIndex,
                          !.locationBefore = eng.game_state.player_location,
                          !.toolRaised = FALSE,
                          !.last = "running", !.failedStage = "none"]
            move == MoveToLocation(intent.target, eng.game_state)
        IN
        IF outcome = "LLMError"
        THEN eng' = EngAbort(started, "intent")
        ELSE IF intent.implicit_move /\ intent.target # "none"
                /\ intent.target \in NodeKeys /\ NodeTypeOf(intent.target) = "location"
        THEN eng' = [started EXCEPT
                       !.intent = intent,
                       !.game_state = move.game_state,
                       !.trail = Moved(@, move.game_state),
                       !.current_focus = IF move.success THEN <<intent.target>> ELSE @,
                       !.pc = "plan"]
        ELSE eng' = [started EXCEPT !.intent = intent, !.pc = "plan"]

\* the Plan step
EngPlan ==
    /\ UNCHANGED <<budgetVars, step, orch, loop, gw, tracker, otherVars>>
    /\ eng.pc = "plan"
    /\ \E outcome \in StageOutcomes :
        IF outcome = "LLMError"
        THEN eng' = EngAbort([eng EXCEPT !.planRuns = @ + 1], "plan")
        ELSE eng' = [eng EXCEPT !.planRuns = @ + 1,
                                !.worldBeforeValidate = eng.game_state,
                                !.validate_messages = <<"user">>,
                                !.pc = "validate"]

\* one iteration of the Validate loop whose response is the final content
EngValidateFinal ==
    /\ UNCHANGED <<budgetVars, step, orch, loop, gw, tracker, otherVars>>
    /\ eng.pc = "validate"
    /\ eng.iteration < max_validate_iterations
    /\ \E verdictText \in VerdictTexts, advanceText \in AdvanceTexts :
        eng' = EngParseValidation(eng, verdictText, advanceText)

\* one iteration of the Validate loop whose response requests tool calls
EngValidateTools ==
    /\ UNCHANGED <<budgetVars, step, orch, loop, gw, tracker, otherVars>>
    /\ eng.pc = "validate"
    /\ eng.iteration < max_validate_iterations
    /\ \E tool_calls \in ToolCallLists :
        LET r == EngRunToolCalls(tool_calls, 1,
                                 [raised |-> FALSE, game_state |-> eng.game_state,
                                  trail |-> eng.trail, results |-> <<>>]) IN
        IF r.raised
        THEN eng' = EngAbort([eng EXCEPT !.game_state = r.game_state,
                                         !.trail = r.trail,
                                         !.toolRaised = TRUE], "validate")
        ELSE eng' = [eng EXCEPT
                       !.game_state = r.game_state,
                       !.trail = r.trail,
                       !.requested = Len(tool_calls),
                       !.validate_messages =
                            @ \o <<"assistant">> \o [i \in 1..Len(r.results) |-> "tool"],
                       !.iteration = @ + 1]

\* a Validate request that fails in the gateway (_chat_with_retry raises)
EngValidateGatewayError ==
    /\ UNCHANGED <<budgetVars, step, orch, loop, gw, tracker, otherVars>>
    /\ eng.pc = "validate"
    /\ eng' = EngAbort(eng, "validate")

\* the for-else branch: after max_validate_iterations rounds of tool calls
\* the verdict is requested without tools
EngValidateForced ==
    /\ UNCHANGED <<budgetVars, step, orch, loop, gw, tracker, otherVars>>
    /\ eng.pc = "validate"
    /\ eng.iteration = max_validate_iterations
    /\ \E verdictText \in VerdictTexts, advanceText \in AdvanceTexts :
        eng' = EngParseValidation(eng, verdictText, advanceText)

\* EXECUTE ACTIONS: on approve a move intent is carried out
EngAction ==
    /\ UNCHANGED <<budgetVars, step, orch, loop, gw, tracker, otherVars>>
    /\ eng.pc = "action"
    /\ LET move == MoveToLocation(eng.intent.target, eng.game_state) IN
       IF Lower(eng.verdict) = "approve" /\ eng.intent.action = "move"
             /\ eng.intent.target # "none"
       THEN eng' = [eng EXCEPT
                      !.game_state = move.game_state,
                      !.trail = Moved(@, move.game_state),
                      !.current_focus = IF move.success THEN <<eng.intent.target>> ELSE @,
                      !.pc = "narrate"]
       ELSE eng' = [eng EXCEPT !.pc = "narrate"]

\* the Narrate step, then COMMIT TURN
EngNarrate ==
    /\ UNCHANGED <<budgetVars, step, orch, loop, gw, tracker, otherVars>>
    /\ eng.pc = "narrate"
    /\ \E outcome \in StageOutcomes :
        IF outcome = "LLMError"
        THEN eng' = EngAbort(eng, "narrate")
        ELSE eng' = [eng EXCEPT
                       !.history = @ \o <<[role |-> "player", turn |-> eng.turns],
                                          [role |-> "dm", turn |-> eng.turns]>>,
                       !.summary = SummaryAdd(@, "Recap", "narrative"),
                       !.turn_index = @ + 1,
                       !.last = "completed",
                       !.pc = "idle"]

EngNext ==
    \/ EngIntent \/ EngPlan \/ EngValidateFinal \/ EngValidateTools
    \/ EngValidateGatewayError \/ EngValidateForced \/ EngAction \/ EngNarrate

SpecEngine == EngInit /\ [][EngNext]_vars

\* ------------------------------------------------------------------------
\* Claims about the turn pipelines
\* ------------------------------------------------------------------------
Min(a, b) == IF a <= b THEN a ELSE b

\* the turn in progress has reached Narrate with Plan and Validate re-run as claimed
ReplannedOnce(t) ==
    /\ t.planRuns <= 2
    /\ t.validateRuns <= 2
    /\ Lower(t.firstVerdict) = "revise" =>
          (t.planRuns = 2 /\ t.validateRuns = 2 /\ t.notesInPlanPrompt)
    /\ Lower(t.firstVerdict) # "revise" => (t.planRuns = 1 /\ t.validateRuns = 1)

\* C1: when a turn reaches Narrate, Plan and Validate have each run at most
\* twice; if the first Validate verdict was revise, Plan was re-run exactly
\* once with the validator's notes in its prompt and Validate was re-run
\* exactly once (whatever the second verdict); otherwise each ran once.
C1_ReplanOnceOnRevise ==
    /\ (orch.pc # "off" /\ orch.pc = "narrate") => ReplannedOnce(orch)
    /\ (eng.pc # "off" /\ eng.pc = "narrate") => ReplannedOnce(eng)

\* the beat index a completed turn must end with
BeatAfterTurn(t, verdictText) ==
    IF Lower(verdictText) = "approve" /\ t.advance
    THEN Min(t.beatBefore + 1, NumBeats - 1)
    ELSE t.beatBefore

\* C2: at the end of a turn the beat index has increased by exactly 1 (capped
\* at len(beats)-1) if the final Validate result was approve with advance=yes,
\* and is unchanged in every other case.
C2_BeatAdvanceGated ==
    /\ (orch.pc # "off" /\ orch.last = "completed") =>
          orch.beatIndex = BeatAfterTurn(orch, orch.verdict)
    /\ (eng.pc # "off" /\ eng.last = "completed") =>
          eng.beatIndex = BeatAfterTurn(eng, eng.verdictSection)

\* C3: after a turn aborted by a fatal stage error, History is what it was
\* before the turn.
C3_HistoryUnchangedOnAbort ==
    /\ (orch.pc # "off" /\ orch.last = "aborted") => orch.history = orch.historyBefore
    /\ (eng.pc # "off" /\ eng.last = "aborted") => eng.history = eng.historyBefore

\* C4: after a turn aborted by a fatal stage error (Narrate included), the
\* beat index is what it was before the turn.
C4_BeatUnchangedOnAbort ==
    /\ (orch.pc # "off" /\ orch.last = "aborted") => orch.beatIndex = orch.beatBefore
    /\ (eng.pc # "off" /\ eng.last = "aborted") => eng.beatIndex = eng.beatBefore

\* C5: during and after the Validate stage's tool sub-loop the world state
\* (player location, NPC locations, discovered keys) is what it was when
\* Validate started, whatever tool names and arguments the model requested.
C5_ValidateReadOnly ==
    (/\ eng.pc # "off"
     /\ \/ eng.pc \in {"validate", "action"}
        \/ eng.last = "aborted" /\ eng.failedStage = "validate")
    => eng.game_state = eng.worldBeforeValidate

\* C6: the verdict the pipeline acts on after Validate is approve or revise,
\* and a response without a verdict section is never acted on as approve.
C6_VerdictValidated ==
    /\ (orch.pc # "off" /\ orch.pc \in {"replan", "revalidate", "narrate"}) =>
          Lower(orch.verdict) \in {"approve", "revise"}
    /\ (eng.pc # "off" /\ eng.pc \in {"action", "narrate"}) =>
          /\ Lower(eng.verdict) \in {"approve", "revise"}
          /\ eng.verdictSection = "missing" => Lower(eng.verdict) # "approve"

\* ------------------------------------------------------------------------
\* Claims about the Budget Manager and the Executor
\* ------------------------------------------------------------------------

C9_ConsumeAtCeilingRaises ==
    [][(/\ lastOp = NoOp
        /\ lastOp'.kind = "consume"
        /\ lastOp'.cost = 1
        /\ lastOp'.tool \in DOMAIN limits
        /\ usage[lastOp'.tool] = limits[lastOp'.tool])
       => (lastOp'.raised /\ usage' = usage)]_vars

\* A consume(tool, 1) that raised at a ceiling reached by earlier consumption
C9_Witness ==
    /\ lastOp.kind = "consume"
    /\ lastOp.cost = 1
    /\ lastOp.raised
    /\ lastOp.tool \in DOMAIN limits
    /\ limits[lastOp.tool] > 0
    /\ usage[lastOp.tool] = limits[lastOp.tool]

\* Call i of the last batch exceeded its ceiling: usage + cost > limit
Vetoed(i) ==
    LET call == lastOp.batch[i] IN
    /\ call.tool \in DOMAIN limits
    /\ lastOp.before[i][call.tool] + ExtractCost(call.budget) > limits[call.tool]

StepFinished == step.status \in {"returned", "failed", "gateway_error", "parser_error"}

LoopTools == {"roll", "bogus"}
CallableTools == {"roll"}

\* the entries of message.tool_calls: a dict with a "function" payload, a dict
\* with name and arguments at top level, or something that is no dict; the
\* arguments are a mapping, a string holding a JSON object, a string holding
\* another JSON value, or a string that is no JSON
RawToolCalls ==
    {[shape |-> "function", name |-> "roll",  arguments |-> "mapping"],
     [shape |-> "function", name |-> "bogus", arguments |-> "json_object"],
     [shape |-> "function", name |-> "roll",  arguments |-> "malformed"],
     [shape |-> "flat",     name |-> "roll",  arguments |-> "json_list"],
     [shape |-> "junk",     name |-> "bogus", arguments |-> "mapping"]}

RawResponses == UNION {[1..n -> RawToolCalls] : n \in 0..MaxLoopCalls}

\* _extract_tool_calls: the entries that are dicts
ExtractToolCalls(raw) == SelectSeq(raw, LAMBDA c : c.shape # "junk")

\* the argument decoding of _normalize_tool_calls
ParseArguments(arguments) ==
    IF arguments \in {"mapping", "json_object"} THEN "args" ELSE "empty"

\* _normalize_tool_calls
NormalizeToolCalls(raw) ==
    LET calls == ExtractToolCalls(raw) IN
    [i \in 1..Len(calls) |->
        [name |-> calls[i].name, arguments |-> ParseArguments(calls[i].arguments)]]

\* what a hook or the tool function returns when it is called
PreResults == {"None", "allow", "veto"}
PostResults == {"None", "note"}
StopResults == {"None", "reason"}
HandlerOutcomes == {"dict", "value", "raise"}

\* pre_result.get("allow", True) with pre_result = hook(...) or {"allow": True}
PreAllows(hasHook, pre) == ~hasHook \/ pre # "veto"

\* a veto that only marks the payload and still runs the tool
ToolPayloadVetoRuns(executor, name, allowed, handler) ==
    IF executor = "none"
    THEN [kind |-> "no_executor", ok |-> FALSE, invoked |-> FALSE]
    ELSE IF name \notin CallableTools
    THEN [kind |-> "raised", ok |-> FALSE, invoked |-> FALSE]
    ELSE IF ~allowed
    THEN [kind |-> "blocked", ok |-> FALSE, invoked |-> TRUE]
    ELSE IF handler = "raise"
    THEN [kind |-> "raised", ok |-> FALSE, invoked |-> TRUE]
    ELSE [kind |-> handler, ok |-> TRUE, invoked |-> TRUE]

\* lines 455-473: the payload of one call; invoked: the tool function ran
ToolPayload(executor, name, allowed, handler) ==
    IF ~allowed
    THEN [kind |-> "blocked", ok |-> FALSE, invoked |-> FALSE]
    ELSE IF executor = "none"
    THEN [kind |-> "no_executor", ok |-> FALSE, invoked |-> FALSE]
    ELSE IF name \notin CallableTools
    THEN [kind |-> "raised", ok |-> FALSE, invoked |-> FALSE]
    ELSE IF handler = "raise"
    THEN [kind |-> "raised", ok |-> FALSE, invoked |-> TRUE]
    ELSE [kind |-> handler, ok |-> TRUE, invoked |-> TRUE]

\* a blocked call that leaves no tool-result turn
CallMessagesSkipBlocked(payload, injected) ==
    (IF payload.kind = "blocked" THEN <<>> ELSE <<"tool">>)
        \o (IF injected THEN <<"user">> ELSE <<>>)

\* lines 484-495: the turns one call appends to convo_messages
CallMessages(payload, injected) ==
    <<"tool">> \o (IF injected THEN <<"user">> ELSE <<>>)

\* the end of the for loop raising like a step that ran out of attempts
AfterRoundRaises(iteration, maxIterations) ==
    IF iteration >= maxIterations THEN "raised" ELSE "running"

\* the end of one iteration: the next one, or the return after the for loop
AfterRound(iteration, maxIterations) ==
    IF iteration >= maxIterations THEN "max_iterations" ELSE "running"

\* the final_answer of the result returned with a status
FinalAnswer(status, current) ==
    IF status = "max_iterations" THEN "placeholder" ELSE current

LoopInit ==
    /\ BudgetIdle
    /\ OthersIdle
    /\ step = StepIdle
    /\ orch = OrchIdle
    /\ eng = EngIdle
    /\ gw = GwIdle
    /\ tracker = TrackerIdle
    /\ \E n \in 0..MaxIterations :
        loop \in [status : {"running"},
                  pre_tool_use : BOOLEAN,
                  post_tool_use : BOOLEAN,
                  stop_hook : BOOLEAN,
                  tool_executor : {"none", "callable"},
                  max_iterations : {Max(1, n)},
                  iteration : {0},
                  stop_hook_active : {FALSE},
                  blocks : {0},
                  requested : {0},
                  pending : {<<>>},
                  tool_results : {<<>>},
                  appended : {<<>>},
                  final_answer : {"none"},
                  gatewayRaised : {FALSE}]

\* one request_with_tools call that returns a response: lines 386-444
LoopRequest ==
    /\ UNCHANGED <<budgetVars, step, orch, eng, gw, tracker, otherVars>>
    /\ loop.status = "running"
    /\ loop.pending = <<>>
    /\ loop.iteration < loop.max_iterations
    /\ \E raw \in RawResponses :
        LET tool_calls == NormalizeToolCalls(raw)
            iteration == loop.iteration + 1
            round == [loop EXCEPT
                        !.iteration = iteration,
                        !.requested = Cardinality({i \in 1..Len(raw) : raw[i].shape # "junk"}),
                        !.tool_results = <<>>]
            status == AfterRound(iteration, loop.max_iterations)
        IN
        IF tool_calls = <<>>
        THEN \E stop \in StopResults :
             IF loop.stop_hook /\ stop = "reason"
             THEN loop' = [round EXCEPT
                             !.stop_hook_active = TRUE,
                             !.blocks = @ + 1,
                             !.appended = <<"user">>,
                             !.status = status,
                             !.final_answer = FinalAnswer(status, @)]
             ELSE loop' = [round EXCEPT
                             !.appended = <<"assistant">>,
                             !.status = "completed",
                             !.final_answer = "text"]
        ELSE loop' = [round EXCEPT
                        !.appended = <<"assistant">>,
                        !.pending = tool_calls]

\* request_with_tools raises: _chat_with_retry ran out of attempts
LoopGatewayError ==
    /\ UNCHANGED <<budgetVars, step, orch, eng, gw, tracker, otherVars>>
    /\ loop.status = "running"
    /\ loop.pending = <<>>
    /\ loop.iteration < loop.max_iterations
    /\ loop' = [loop EXCEPT !.iteration = @ + 1, !.status = "raised", !.gatewayRaised = TRUE,
                            !.requested = 0, !.tool_results = <<>>, !.appended = <<>>]

\* the body of "for call in tool_calls" for the next call: lines 446-495
LoopToolCall ==
    /\ UNCHANGED <<budgetVars, step, orch, eng, gw, tracker, otherVars>>
    /\ loop.status = "running"
    /\ loop.pending # <<>>
    /\ \E pre \in PreResults, handler \in HandlerOutcomes, post \in PostResults :
        LET call == Head(loop.pending)
            allowed == PreAllows(loop.pre_tool_use, pre)
            payload == ToolPayload(loop.tool_executor, call.name, allowed, handler)
            injected == loop.post_tool_use /\ post = "note"
            rest == Tail(loop.pending)
            status == IF rest = <<>> THEN AfterRound(loop.iteration, loop.max_iterations)
                      ELSE "running"
        IN
        loop' = [loop EXCEPT
                   !.pending = rest,
                   !.tool_results = Append(@, [name |-> call.name,
                                               result |-> payload,
                                               vetoed |-> ~allowed,
                                               note |-> injected]),
                   !.appended = @ \o CallMessages(payload, injected),
                   !.status = status,
                   !.final_answer = FinalAnswer(status, @)]

LoopNext == LoopRequest \/ LoopGatewayError \/ LoopToolCall

SpecLoop == LoopInit /\ [][LoopNext]_vars

\* ------------------------------------------------------------------------
\* Claims about the Tool-Invocation Loop
\* ------------------------------------------------------------------------

\* the tool-result turns among the turns appended in the current round
ToolTurns(appended) == Cardinality({i \in 1..Len(appended) : appended[i] = "tool"})

C14_StopHookBlocksOnce ==
    loop.status # "off" => loop.blocks <= 1

C16_PostNoteOnlyAfterSuccess ==
    loop.status # "off" =>
        \A i \in 1..Len(loop.tool_results) :
            loop.tool_results[i].note =>
                loop.tool_results[i].result.invoked /\ loop.tool_results[i].result.ok

\* C17: a call vetoed by pre_tool_use never reaches the tool function and its
\* tool result is an error payload.
C17_VetoSkipsHandler ==
    loop.status # "off" =>
        \A i \in 1..Len(loop.tool_results) :
            loop.tool_results[i].vetoed =>
                /\ ~loop.tool_results[i].result.invoked
                /\ ~loop.tool_results[i].result.ok
                /\ loop.tool_results[i].result.kind = "blocked"

\* A vetoed call to a tool the executor knows, followed by a call that ran
C17_Witness ==
    /\ loop.status # "off"
    /\ loop.tool_executor = "callable"
    /\ Len(loop.tool_results) = 2
    /\ loop.tool_results[1].vetoed
    /\ loop.tool_results[1].name = "roll"
    /\ ~loop.tool_results[1].result.invoked
    /\ loop.tool_results[2].result.invoked
    /\ loop.tool_results[2].result.ok

\* C12: a call of a batch that names a tool without a registered handler gets
\* a ToolExecution with status error and its handler lookup runs nothing; the
\* batch still returns one execution per call.
C12_UnknownToolIsError ==
    lastOp.kind = "execute" =>
        /\ Len(executions) = Len(lastOp.batch)
        /\ \A i \in 1..Len(lastOp.batch) :
              lastOp.batch[i].tool \notin RegisteredTools =>
                  /\ executions[i].status = "error"
                  /\ executions[i].error = "unknown tool"
                  /\ ~invoked[i]

\* C13: a tool call that fails during a Validate round, a call with missing
\* or malformed arguments included, does not abort the turn.
C13_ToolFailureNonFatal ==
    eng.pc # "off" => ~(eng.last = "aborted" /\ eng.toolRaised)

\* ------------------------------------------------------------------------
\* The gateway calls of LLMAdapter: request_text (orchestrator/adapter.py and
\* orchestrator/llm_interaction/adapter.py), request_json and
\* _chat_with_retry (orchestrator/llm_interaction/adapter.py)
\* ------------------------------------------------------------------------
GwOps == {"request_text", "legacy_request_text", "request_json", "chat_with_retry"}

\* what one ollama.chat call does: it returns a response with some content, or
\* it raises ResponseError whose message holds raw='<text>' or no raw marker
\* ("none")
BackendOutcomes ==
    [kind : {"response"}, text : {"", " ", "story", " story ", "{}"}]
        \cup [kind : {"ResponseError"}, text : {"none", "", "it's", "{}"}]

\* str.strip() on the texts above
Strip(text) ==
    CASE text = " "       -> ""
      [] text = " story " -> "story"
      [] OTHER            -> text

\* _extract_raw_from_error: the text between raw=' and the next apostrophe,
\* None ("None") without the marker
ExtractRawFromError(text) ==
    CASE text = "none" -> "None"
      [] text = "it's" -> "it"
      [] OTHER         -> text

\* `x or ""`
OrEmpty(x) == IF x = "None" THEN "" ELSE x

\* json.loads accepts the text
IsJson(text) == text = "{}"

\* lines 56-63 of request_text: the content one backend call yields
TextContent(outcome) ==
    Strip(IF outcome.kind = "response" THEN outcome.text
          ELSE OrEmpty(ExtractRawFromError(outcome.text)))

\* an attempt loop that gives up one call early
GwAfterAttemptOneShort(calls, maxAttempts) ==
    IF calls + 1 >= maxAttempts THEN "LLMError" ELSE "running"

\* the end of one attempt that did not return: the next attempt, or the
\* LLMError raised after the loop
GwAfterAttempt(calls, maxAttempts) ==
    IF calls >= maxAttempts THEN "LLMError" ELSE "running"

\* one iteration of the loop of request_text
RequestTextAttempt(g, outcome) ==
    LET content == TextContent(outcome)
        called == [g EXCEPT !.calls = @ + 1,
                            !.backend = Append(@, outcome),
                            !.attempt_history = Append(@, [content |-> content,
                                                           success |-> content # ""])]
    IN
    IF content # ""
    THEN [called EXCEPT !.status = "returned", !.content = content]
    ELSE [called EXCEPT !.notes = @ + 1,
                        !.status = GwAfterAttempt(called.calls, g.max_attempts)]

GwInit ==
    /\ BudgetIdle
    /\ OthersIdle
    /\ step = StepIdle
    /\ orch = OrchIdle
    /\ eng = EngIdle
    /\ loop = LoopIdle
    /\ tracker = TrackerIdle
    /\ \E n \in 0..AdapterMaxAttempts :
        gw \in [status : {"running"},
                op : GwOps,
                max_attempts : {Max(1, n)},
                validator : {"none", "pass", "raise"},
                calls : {0},
                notes : {0},
                backend : {<<>>},
                attempt_history : {<<>>},
                content : {"none"}]
    /\ gw.op # "request_json" => gw.validator = "none"

\* llm_interaction/adapter.py request_text: one backend call
RequestText ==
    /\ UNCHANGED <<budgetVars, step, orch, eng, loop, tracker, otherVars>>
    /\ gw.status = "running"
    /\ gw.op = "request_text"
    /\ \E outcome \in BackendOutcomes : gw' = RequestTextAttempt(gw, outcome)

\* adapter.py request_text: one backend call
LegacyRequestText ==
    /\ UNCHANGED <<budgetVars, step, orch, eng, loop, tracker, otherVars>>
    /\ gw.status = "running"
    /\ gw.op = "legacy_request_text"
    /\ \E outcome \in BackendOutcomes : gw' = RequestTextAttempt(gw, outcome)

\* llm_interaction/adapter.py request_json: one backend call; ollama.chat is
\* outside the try block, so a ResponseError leaves request_json
RequestJson ==
    /\ UNCHANGED <<budgetVars, step, orch, eng, loop, tracker, otherVars>>
    /\ gw.status = "running"
    /\ gw.op = "request_json"
    /\ \E outcome \in BackendOutcomes :
        LET called == [gw EXCEPT !.calls = @ + 1, !.backend = Append(@, outcome)] IN
        IF outcome.kind = "ResponseError"
        THEN gw' = [called EXCEPT !.status = "ResponseError"]
        ELSE IF IsJson(outcome.text) /\ gw.validator # "raise"
        THEN gw' = [called EXCEPT !.status = "returned", !.content = outcome.text]
        ELSE gw' = [called EXCEPT !.notes = @ + 1,
                                  !.status = GwAfterAttempt(called.calls, gw.max_attempts)]

\* _chat_with_retry (behind request_with_tools): one backend call
ChatWithRetry ==
    /\ UNCHANGED <<budgetVars, step, orch, eng, loop, tracker, otherVars>>
    /\ gw.status = "running"
    /\ gw.op = "chat_with_retry"
    /\ \E outcome \in BackendOutcomes :
        LET called == [gw EXCEPT !.calls = @ + 1, !.backend = Append(@, outcome)]
            raw == ExtractRawFromError(outcome.text)
        IN
        IF outcome.kind = "response"
        THEN gw' = [called EXCEPT !.status = "returned", !.content = outcome.text]
        ELSE IF raw \notin {"None", ""}
        THEN gw' = [called EXCEPT !.status = "returned", !.content = raw]
        ELSE gw' = [called EXCEPT
                      !.status = GwAfterAttempt(called.calls, gw.max_attempts)]

GwNext == RequestText \/ LegacyRequestText \/ RequestJson \/ ChatWithRetry

SpecGateway == GwInit /\ [][GwNext]_vars

\* ------------------------------------------------------------------------
\* Claims about the gateway
\* ------------------------------------------------------------------------

\* the backend call i of the current gateway call came back without content
EmptyResponse(i) == TextContent(gw.backend[i]) = ""

\* C18: request_text makes at most max_attempts backend calls; it appends one
\* corrective system note per response without content; it returns the
\* content of the first response that has some, and raises the fatal stage
\* error exactly when max_attempts calls all came back without content.
C18_RequestTextRetriesOnEmpty ==
    gw.status # "off" /\ gw.op \in {"request_text", "legacy_request_text"} =>
        /\ gw.calls = Len(gw.backend)
        /\ gw.calls <= gw.max_attempts
        /\ gw.notes = Cardinality({i \in 1..gw.calls : EmptyResponse(i)})
        /\ gw.status = "returned" =>
              /\ gw.calls >= 1
              /\ ~EmptyResponse(gw.calls)
              /\ gw.content = TextContent(gw.backend[gw.calls])
              /\ \A i \in 1..(gw.calls - 1) : EmptyResponse(i)
        /\ gw.status = "LLMError" <=>
              (gw.calls = gw.max_attempts /\ \A i \in 1..gw.calls : EmptyResponse(i))
        /\ gw.status \in {"running", "returned", "LLMError"}

\* request_text returned on a later attempt, after a response without content
C18_Witness ==
    /\ gw.op = "request_text"
    /\ gw.status = "returned"
    /\ gw.calls = 2
    /\ gw.notes = 1
    /\ gw.content = "story"

\* C19: when a backend call raises a ResponseError that carries a non-empty
\* raw payload, the gateway call does not fail with that error: the raw text
\* becomes the response content (of request_text and of the tool-enabled
\* request), and request_json goes on with it.
C19_RawPayloadSalvaged ==
    (/\ gw.status # "off"
     /\ gw.calls >= 1
     /\ gw.backend[gw.calls].kind = "ResponseError"
     /\ gw.backend[gw.calls].text \notin {"none", ""}) =>
        /\ gw.status # "ResponseError"
        /\ gw.op # "request_json" =>
              gw.status = "returned" /\ gw.content = gw.backend[gw.calls].text

\* ------------------------------------------------------------------------
\* BeatTracker (orchestrator/pipeline.py, orchestrator/runtime_flow/session_state.py)
\* ------------------------------------------------------------------------
BeatTexts == {"arrival", "climax"}

BeatLists == UNION {[1..n -> BeatTexts] : n \in 0..MaxBeats}

\* BeatTracker(beats): index starts at 0, also for an empty beat list
TrackerInit ==
    /\ BudgetIdle
    /\ OthersIdle
    /\ step = StepIdle
    /\ orch = OrchIdle
    /\ eng = EngIdle
    /\ loop = LoopIdle
    /\ gw = GwIdle
    /\ tracker \in [status : {"on"}, beats : BeatLists, index : {0},
                    calls : {0}, before : {0}]

\* BeatTracker.advance()
TrackerAdvance ==
    /\ UNCHANGED <<budgetVars, step, orch, eng, loop, gw, otherVars>>
    /\ tracker.status = "on"
    /\ tracker.calls < MaxAdvanceCalls
    /\ tracker' = [tracker EXCEPT
                     !.before = tracker.index,
                     !.index = BeatAdvance(tracker.index, Len(tracker.beats)),
                     !.calls = @ + 1]

TrackerNext == TrackerAdvance

SpecTracker == TrackerInit /\ [][TrackerNext]_vars

\* C20 as stated: after one or more advance calls the index has never
\* decreased, has changed by at most 1 per call, and is at most len(beats)-1.
C20_Original ==
    tracker.status = "on" /\ tracker.calls >= 1 =>
        /\ tracker.index >= tracker.before
        /\ tracker.index - tracker.before <= 1
        /\ tracker.index <= Len(tracker.beats) - 1

\* C20: the index never decreases, changes by at most 1 per advance call, and
\* is at most len(beats)-1 when the beat list is not empty; for an empty list
\* it stays 0.  After n calls it is the smaller of n and that ceiling.
C20_BeatIndexBounded ==
    tracker.status = "on" =>
        /\ tracker.index >= tracker.before
        /\ tracker.index - tracker.before <= 1
        /\ tracker.index <= Max(0, Len(tracker.beats) - 1)
        /\ tracker.index = Min(tracker.calls, Max(0, Len(tracker.beats) - 1))

\* More advance calls than beats: the index stands at the last beat
C20_Witness ==
    /\ tracker.status = "on"
    /\ Len(tracker.beats) = 3
    /\ tracker.calls = 4
    /\ tracker.index = 2
    /\ tracker.before = 2

\* ------------------------------------------------------------------------
\* Narrate stage: LLMStep.run of the "narrate" step with the narration
\* validator (runtime_flow/step.py, pipeline.py), then the commit of the turn
\* ------------------------------------------------------------------------

\* A narrative section is the sequence of its whitespace-separated words.
\* the Narrative sections a narrate response can decode to; <<>> is a response
\* without a Narrative section (sections.get("narrative", "") gives "")
Narratives ==
    { <<"You", "enter", "the", "square.">>,
      <<"1)", "go", "left", "2)", "go", "right">>,
      <<"3)", "go", "left", "4)", "go", "right">>,
      <<"-", "go", "left", "-", "go", "right">>,
      <<"*", "go", "left", "*", "go", "right">>,
      <<>> }

\* re.search(r"\b1\)", word) or re.search(r"\b2\)", word) on one word of the
\* alphabet above: only the literal markers 1) and 2) match
numbered_choice_match(word) == word \in {"1)", "2)"}

\* validate_narration_step / _validate_narration_step: TRUE when it raises
validate_narration_step(narrative) ==
    \/ narrative = <<>>
    \/ \E i \in 1..Len(narrative) : numbered_choice_match(narrative[i])

\* parse_narrative: the narrative section, stripped (words carry no outer blanks)
parse_narrative(narrative) == narrative

NarrInit ==
    /\ BudgetIdle
    /\ step = StepIdle
    /\ orch = OrchIdle
    /\ eng = EngIdle
    /\ loop = LoopIdle
    /\ gw = GwIdle
    /\ tracker = TrackerIdle
    /\ focus = FocusIdle
    /\ hist = HistIdle
    /\ summ = SummIdle
    /\ codec = CodecIdle
    /\ mv = MvIdle
    /\ narr \in [status : {"running"},
                 max_attempts : 1..MaxStepAttempts,
                 attempt_num : {1},
                 notes : {0},
                 offered : {<<>>},
                 rejected : {<<>>},
                 narrative : {<<>>},
                 history : {<<>>}]

\* One iteration of the loop of LLMStep.run for the narrate step: the gateway
\* answers with a response whose Narrative section is n, or raises
NarrAttempt ==
    /\ UNCHANGED <<budgetVars, step, orch, eng, loop, gw, tracker, focus, hist, summ, codec, mv>>
    /\ narr.status = "running"
    /\ \/ \* adapter.request_text raised: note appended, next attempt
          narr' = [narr EXCEPT
                     !.notes = @ + 1,
                     !.attempt_num = @ + 1,
                     !.status = AfterContinue(narr.attempt_num, narr.max_attempts)]
       \/ \E n \in Narratives :
            IF validate_narration_step(n)
            THEN narr' = [narr EXCEPT
                            !.offered = Append(@, n),
                            !.rejected = Append(@, n),
                            !.notes = @ + 1,
                            !.attempt_num = @ + 1,
                            !.status = AfterContinue(narr.attempt_num, narr.max_attempts)]
            ELSE narr' = [narr EXCEPT
                            !.offered = Append(@, n),
                            !.narrative = parse_narrative(n),
                            !.status = "returned"]

\* StoryEngine.run_turn after the narrate step returned: the commit
NarrCommit ==
    /\ UNCHANGED <<budgetVars, step, orch, eng, loop, gw, tracker, focus, hist, summ, codec, mv>>
    /\ narr.status = "returned"
    /\ narr' = [narr EXCEPT
                  !.history = @ \o << [role |-> "player", text |-> <<"look">>],
                                     [role |-> "dm", text |-> narr.narrative] >>,
                  !.status = "committed"]

NarrNext == NarrAttempt \/ NarrCommit

SpecNarrate == NarrInit /\ [][NarrNext]_vars

\* a numbered or bulleted choice menu: a list marker "n)" or a bullet opens an option
ChoiceMenuMarkers == {"1)", "2)", "3)", "4)", "-", "*"}

ContainsChoiceMenu(narrative) ==
    \E i \in 1..Len(narrative) : narrative[i] \in ChoiceMenuMarkers

\* C21: a narrative that contains a numbered or bulleted choice menu is
\* rejected by the narration validator (and retried with a corrective note),
\* so it is never the narrative the Narrate stage returns and never a turn
\* committed to History.
C21_NoChoiceMenuReturned ==
    /\ narr.status \in {"returned", "committed"} => ~ContainsChoiceMenu(narr.narrative)
    /\ \A i \in 1..Len(narr.history) : ~ContainsChoiceMenu(narr.history[i].text)

\* C22: a turn that completes appends to History exactly two turns, the
\* player input followed by the narration, and appends exactly one labeled
\* entry to the SessionSummary (stated for Orchestrator.run_turn and for
\* StoryEngine.run_turn).
C22_CommitAppendsTwoTurnsOneEntry ==
    /\ orch.pc = "idle" /\ orch.last = "completed" =>
            /\ orch.history = orch.historyBefore \o
                    << [role |-> "player", turn |-> orch.turns],
                       [role |-> "dm", turn |-> orch.turns] >>
            /\ Len(orch.summary) = Len(orch.summaryBefore) + 1
    /\ eng.pc = "idle" /\ eng.last = "completed" =>
            /\ eng.history = eng.historyBefore \o
                    << [role |-> "player", turn |-> eng.turns],
                       [role |-> "dm", turn |-> eng.turns] >>
            /\ Len(eng.summary) = Len(eng.summaryBefore) + 1

\* ------------------------------------------------------------------------
\* Focus update from Intent: FocusManager.apply_intent
\* (runtime_flow/session_state.py) and Orchestrator._apply_intent_to_focus
\* (pipeline.py), which hold the same statements
\* ------------------------------------------------------------------------

\* story.by_key
StoryKeys == {"Square", "Market", "Mitch"}

\* the entity names an Intent response can put in Targets (Dragon is no story node)
TargetNames == {"Market", "Mitch", "Dragon"}

\* the entity names an Intent response can put in Refusals
RefusalNames == {"Square", "Mitch"}

\* intent["action"] after lower(): one that moves the focus and one that does not
FocusActions == {"talk", "wait"}

FocusShiftActions == {"move", "talk", "inspect", "other"}

SeqsUpTo(S, n) == UNION {[1..k -> S] : k \in 0..n}

FocusIntents ==
    [action : FocusActions, targets : SeqsUpTo(TargetNames, MaxTargets), refusals : SUBSET RefusalNames]

\* [t for t in intent.get("targets", []) if t in story.by_key]
KnownTargets(intent) == SelectSeq(intent.targets, LAMBDA t : t \in StoryKeys)

\* targets[:2]
FirstTwo(targets) == SubSeq(targets, 1, Min(2, Len(targets)))

\* FocusManager.apply_intent / Orchestrator._apply_intent_to_focus: the focus after the call
apply_intent(intent, current_focus) ==
    LET targets == KnownTargets(intent)
        kept == IF \E i \in 1..Len(current_focus) : current_focus[i] \in intent.refusals
                THEN <<>> ELSE current_focus
    IN
    IF targets # <<>> /\ intent.action \in FocusShiftActions THEN FirstTwo(targets)
    ELSE IF kept = <<>> /\ targets # <<>> THEN FirstTwo(targets)
    ELSE kept

FocusInit ==
    /\ BudgetIdle
    /\ step = StepIdle
    /\ orch = OrchIdle
    /\ eng = EngIdle
    /\ loop = LoopIdle
    /\ gw = GwIdle
    /\ tracker = TrackerIdle
    /\ narr = NarrIdle
    /\ hist = HistIdle
    /\ summ = SummIdle
    /\ codec = CodecIdle
    /\ mv = MvIdle
    /\ focus = [status |-> "ready",
                current_focus |-> <<"Square">>,
                before |-> <<"Square">>,
                intent |-> [action |-> "wait", targets |-> <<>>, refusals |-> {}],
                calls |-> 0]

\* one focus update: Orchestrator.run_turn line 288, or a FocusManager.apply_intent call
ApplyIntentToFocus ==
    /\ UNCHANGED <<budgetVars, step, orch, eng, loop, gw, tracker, narr, hist, summ, codec, mv>>
    /\ focus.status = "ready"
    /\ focus.calls < MaxFocusCalls
    /\ \E intent \in FocusIntents :
        focus' = [focus EXCEPT
                    !.before = focus.current_focus,
                    !.intent = intent,
                    !.current_focus = apply_intent(intent, focus.current_focus),
                    !.calls = @ + 1]

FocusNext == ApplyIntentToFocus

SpecFocus == FocusInit /\ [][FocusNext]_vars

\* C23: after the focus update derived from Intent every refused entity is
\* absent from the focus; if the intent names (known) target entities the
\* focus is those targets; otherwise the non-refused entries of the previous
\* focus are retained unchanged.
C23_FocusAfterIntent ==
    focus.status = "ready" /\ focus.calls >= 1 =>
        /\ \A i \in 1..Len(focus.current_focus) : focus.current_focus[i] \notin focus.intent.refusals
        /\ KnownTargets(focus.intent) # <<>> => focus.current_focus = KnownTargets(focus.intent)
        /\ KnownTargets(focus.intent) = <<>> =>
                focus.current_focus = SelectSeq(focus.before, LAMBDA k : k \notin focus.intent.refusals)

\* ------------------------------------------------------------------------
\* History (orchestrator/history.py)
\* ------------------------------------------------------------------------

\* History.__init__ defaults
default_max_turns == 8

default_keep_recent == 4

\* the (max_turns, keep_recent) a History is constructed with
HistoryConfigs ==
    { [max_turns |-> default_max_turns, keep_recent |-> default_keep_recent],
      [max_turns |-> 2, keep_recent |-> 1],
      [max_turns |-> 2, keep_recent |-> 0],
      [max_turns |-> 2, keep_recent |-> 3] }

\* what adapter.request_text("summary", ...).strip() ends with: a non-empty
\* text, an empty text, or an exception
SummarizerOutcomes == {"text", "empty", "raise"}

\* a slice that keeps one turn too few
LastTurnsOneShort(turns, k) ==
    IF k <= 1 THEN <<>>
    ELSE SubSeq(turns, Len(turns) - Min(k - 1, Len(turns)) + 1, Len(turns))

\* turns[-k:] for k >= 0 (Python: -0 is 0, so turns[-0:] is the whole list)
LastTurns(turns, k) ==
    IF k = 0 THEN turns
    ELSE SubSeq(turns, Len(turns) - Min(k, Len(turns)) + 1, Len(turns))

HistInit ==
    /\ BudgetIdle
    /\ step = StepIdle
    /\ orch = OrchIdle
    /\ eng = EngIdle
    /\ loop = LoopIdle
    /\ gw = GwIdle
    /\ tracker = TrackerIdle
    /\ narr = NarrIdle
    /\ focus = FocusIdle
    /\ summ = SummIdle
    /\ codec = CodecIdle
    /\ mv = MvIdle
    /\ \E cfg \in HistoryConfigs :
        hist = [status |-> "ready",
                max_turns |-> cfg.max_turns,
                keep_recent |-> cfg.keep_recent,
                turns |-> <<>>,
                summary |-> [set |-> FALSE],
                appended |-> 0,
                summarizeCalls |-> 0,
                before |-> <<>>,
                summaryBefore |-> [set |-> FALSE],
                last |-> "none"]

\* History.add_player_turn
HistAddPlayerTurn ==
    /\ UNCHANGED <<budgetVars, step, orch, eng, loop, gw, tracker, narr, focus, summ, codec, mv>>
    /\ hist.status = "ready"
    /\ hist.appended < MaxAppends
    /\ hist' = [hist EXCEPT
                  !.turns = Append(@, [role |-> "player", n |-> hist.appended + 1]),
                  !.appended = @ + 1,
                  !.last = "add"]

\* History.add_dm_turn
HistAddDmTurn ==
    /\ UNCHANGED <<budgetVars, step, orch, eng, loop, gw, tracker, narr, focus, summ, codec, mv>>
    /\ hist.status = "ready"
    /\ hist.appended < MaxAppends
    /\ hist' = [hist EXCEPT
                  !.turns = Append(@, [role |-> "dm", n |-> hist.appended + 1]),
                  !.appended = @ + 1,
                  !.last = "add"]

\* a maybe_summarize that cuts the turn list before it asks for the summary
maybe_summarizeCutFirst(h, outcome) ==
    LET called == [h EXCEPT !.before = h.turns, !.summaryBefore = h.summary] IN
    IF Len(h.turns) < h.max_turns
    THEN [called EXCEPT !.last = "below_max_turns"]
    ELSE IF outcome = "raise"
    THEN [called EXCEPT !.summarizeCalls = @ + 1,
                        !.turns = LastTurns(h.turns, h.keep_recent),
                        !.last = "summarizer_failed"]
    ELSE IF outcome = "empty"
    THEN [called EXCEPT !.summarizeCalls = @ + 1,
                        !.turns = LastTurns(h.turns, h.keep_recent),
                        !.last = "summary_empty"]
    ELSE [called EXCEPT
            !.summarizeCalls = @ + 1,
            !.summary = [set |-> TRUE,
                         summary |-> h.summarizeCalls + 1,
                         turns |-> LastTurns(h.turns, h.keep_recent)],
            !.turns = LastTurns(h.turns, h.keep_recent),
            !.last = "summarized"]

\* History.maybe_summarize(adapter): the History after the call, for each way
\* the summarizer request can end
maybe_summarize(h, outcome) ==
    LET called == [h EXCEPT !.before = h.turns, !.summaryBefore = h.summary] IN
    IF Len(h.turns) < h.max_turns
    THEN [called EXCEPT !.last = "below_max_turns"]
    ELSE IF outcome = "raise"
    THEN [called EXCEPT !.summarizeCalls = @ + 1, !.last = "summarizer_failed"]
    ELSE IF outcome = "empty"
    THEN [called EXCEPT !.summarizeCalls = @ + 1, !.last = "summary_empty"]
    ELSE [called EXCEPT
            !.summarizeCalls = @ + 1,
            !.summary = [set |-> TRUE,
                         summary |-> h.summarizeCalls + 1,
                         turns |-> LastTurns(h.turns, h.keep_recent)],
            !.turns = LastTurns(h.turns, h.keep_recent),
            !.last = "summarized"]

\* a caller runs History.maybe_summarize after a turn was added
HistMaybeSummarize ==
    /\ UNCHANGED <<budgetVars, step, orch, eng, loop, gw, tracker, narr, focus, summ, codec, mv>>
    /\ hist.status = "ready"
    /\ hist.last = "add"
    /\ \E outcome \in SummarizerOutcomes :
        hist' = maybe_summarize(hist, outcome)

HistNext == HistAddPlayerTurn \/ HistAddDmTurn \/ HistMaybeSummarize

SpecHistory == HistInit /\ [][HistNext]_vars

\* C24: with max_turns = 8 and keep_recent = 4, a maybe_summarize call made
\* after the 8th appended turn (whose summarizer returns a summary) replaces
\* the turn list by a new summary plus exactly the last 4 turns, in their
\* original order.
C24_SummarizeKeepsLastFour ==
    /\ hist.status = "ready"
    /\ hist.max_turns = 8 /\ hist.keep_recent = 4
    /\ hist.last = "summarized"
    /\ Len(hist.before) = 8
    => /\ hist.turns = SubSeq(hist.before, 5, 8)
       /\ hist.summary.set
       /\ hist.summary # hist.summaryBefore
       /\ hist.summary.turns = SubSeq(hist.before, 5, 8)

C24_Witness ==
    /\ hist.status = "ready"
    /\ hist.max_turns = 8 /\ hist.keep_recent = 4
    /\ hist.last = "summarized"
    /\ Len(hist.before) = 8
    /\ hist.appended = 8
    /\ Len(hist.turns) = 4

\* ------------------------------------------------------------------------
\* SessionSummary (runtime_flow/session_state.py; pipeline.py holds the same class)
\* ------------------------------------------------------------------------

\* A text is the sequence of its characters.
\* the labels run_turn passes to add
SummaryLabels == { <<"P","l","a","y","e","r">>, <<"R","e","c","a","p">> }

\* the texts passed to add: empty, blank, and texts with and without outer blanks
SummaryTexts == { <<>>, <<" ">>, <<"a">>, <<" ","b","c"," ">> }

\* the whitespace str.strip() removes
Whitespace == {" ", "\n"}

RECURSIVE LStrip(_)
LStrip(text) == IF text # <<>> /\ Head(text) \in Whitespace THEN LStrip(Tail(text)) ELSE text

RECURSIVE RStrip(_)
RStrip(text) ==
    IF text # <<>> /\ text[Len(text)] \in Whitespace
    THEN RStrip(SubSeq(text, 1, Len(text) - 1)) ELSE text

\* str.strip()
StripText(text) == RStrip(LStrip(text))

\* a ceiling is None (not set) or an integer
NoCeiling == [set |-> FALSE, value |-> 0]

Ceilings(max) == {NoCeiling} \cup [set : {TRUE}, value : (-1)..max]

\* len("\n".join(events))
RECURSIVE TextLen(_)
TextLen(events) ==
    IF events = <<>> THEN 0
    ELSE IF Len(events) = 1 THEN Len(events[1])
    ELSE Len(events[1]) + 1 + TextLen(Tail(events))

\* the two tests of the loop of _trim
OverItems(events, max_items) == max_items.set /\ Len(events) > max_items.value

OverChars(events, max_chars) == max_chars.set /\ TextLen(events) > max_chars.value

\* a trim that only enforces max_items
RECURSIVE TrimItemsOnly(_, _, _)
TrimItemsOnly(events, max_items, max_chars) ==
    IF OverItems(events, max_items)
    THEN IF events = <<>>
         THEN [returns |-> FALSE, events |-> events]
         ELSE TrimItemsOnly(Tail(events), max_items, max_chars)
    ELSE [returns |-> TRUE, events |-> events]

\* a trim that drops the newest entry first
RECURSIVE TrimNewestFirst(_, _, _)
TrimNewestFirst(events, max_items, max_chars) ==
    IF OverItems(events, max_items) \/ OverChars(events, max_chars)
    THEN IF events = <<>>
         THEN [returns |-> FALSE, events |-> events]
         ELSE TrimNewestFirst(SubSeq(events, 1, Len(events) - 1), max_items, max_chars)
    ELSE [returns |-> TRUE, events |-> events]

\* SessionSummary._trim: the events when the loop ends; the loop does not end
\* when a test still holds on the empty list (events[1:] of [] is [])
RECURSIVE Trim(_, _, _)
Trim(events, max_items, max_chars) ==
    IF OverItems(events, max_items) \/ OverChars(events, max_chars)
    THEN IF events = <<>>
         THEN [returns |-> FALSE, events |-> events]
         ELSE Trim(Tail(events), max_items, max_chars)
    ELSE [returns |-> TRUE, events |-> events]

SummInit ==
    /\ BudgetIdle
    /\ step = StepIdle
    /\ orch = OrchIdle
    /\ eng = EngIdle
    /\ loop = LoopIdle
    /\ gw = GwIdle
    /\ tracker = TrackerIdle
    /\ narr = NarrIdle
    /\ focus = FocusIdle
    /\ hist = HistIdle
    /\ codec = CodecIdle
    /\ mv = MvIdle
    /\ summ \in [status : {"ready"},
                 max_items : Ceilings(MaxItems),
                 max_chars : Ceilings(MaxChars),
                 events : {<<>>},
                 added : {<<>>},
                 calls : {0},
                 last : {"none"}]

\* SessionSummary.add(label, text)
SummAdd ==
    /\ UNCHANGED <<budgetVars, step, orch, eng, loop, gw, tracker, narr, focus, hist, codec, mv>>
    /\ summ.status = "ready"
    /\ summ.calls < MaxAdds
    /\ \E label \in SummaryLabels, text \in SummaryTexts :
        LET cleaned == StripText(text)
            entry == label \o <<":", " ">> \o cleaned
            trimmed == Trim(Append(summ.events, entry), summ.max_items, summ.max_chars)
        IN
        IF cleaned = <<>>
        THEN summ' = [summ EXCEPT !.calls = @ + 1, !.last = "blank"]
        ELSE summ' = [summ EXCEPT
                        !.calls = @ + 1,
                        !.added = Append(@, entry),
                        !.events = trimmed.events,
                        !.status = IF trimmed.returns THEN "ready" ELSE "trimming",
                        !.last = "added"]

SummNext == SummAdd

SpecSummary == SummInit /\ [][SummNext]_vars

IsSuffix(s, t) == Len(s) <= Len(t) /\ s = SubSeq(t, Len(t) - Len(s) + 1, Len(t))

\* C25 as stated: after every SessionSummary.add the number of entries is at
\* most max_items and the text length is at most max_chars, for each ceiling
\* that is set, and the retained entries are a suffix of the added entries.
C25_Original ==
    summ.status = "ready" /\ summ.calls >= 1 =>
        /\ summ.max_items.set => Len(summ.events) <= summ.max_items.value
        /\ summ.max_chars.set => TextLen(summ.events) <= summ.max_chars.value
        /\ IsSuffix(summ.events, summ.added)

NonNegative(ceiling) == ceiling.set => ceiling.value >= 0

\* C25: with ceilings that are not negative, after every SessionSummary.add
\* the number of entries is at most max_items and the text length is at most
\* max_chars, for each ceiling that is set, and the retained entries are a
\* suffix of the sequence of added entries: only the oldest entries are
\* dropped.
C25_SummaryWithinCeilings ==
    /\ summ.status \in {"ready", "trimming"}
    /\ summ.calls >= 1
    /\ NonNegative(summ.max_items) /\ NonNegative(summ.max_chars)
    => /\ summ.status = "ready"
       /\ summ.max_items.set => Len(summ.events) <= summ.max_items.value
       /\ summ.max_chars.set => TextLen(summ.events) <= summ.max_chars.value
       /\ IsSuffix(summ.events, summ.added)

\* an add dropped the oldest entry to respect max_chars, and kept a later one
C25_Witness ==
    /\ summ.status = "ready"
    /\ summ.last = "added"
    /\ summ.max_chars.set /\ ~summ.max_items.set
    /\ Len(summ.added) >= 2
    /\ Len(summ.events) >= 1
    /\ Len(summ.events) < Len(summ.added)

\* ------------------------------------------------------------------------
\* Section-tag codec: parse_sections (runtime_flow/step.py,
\* llm_interaction/step.py) and _parse_sections (pipeline.py)
\* ------------------------------------------------------------------------

\* A line, stripped, is the sequence of its words; a blank line is <<>>; a
\* decoded section is a sequence of words, with "\n" where lines were joined
\* by a newline.
\* the tags the step recognizes
CodecTags == {"verdict", "notes"}

\* f"{tag}:"
TagPrefix(tag) == IF tag = "verdict" THEN "verdict:" ELSE "notes:"

\* str.lower() on the first word of a line
LowerWord(word) ==
    CASE word = "Verdict:" -> "verdict:"
      [] word = "VERDICT:" -> "verdict:"
      [] word = "Notes:"   -> "notes:"
      [] word = "Advance:" -> "advance:"
      [] OTHER             -> word

\* the word that stands for a code-fence marker (three backquotes)
CodeFence == "<fence>"

\* the lines of a response: tag lines in two spellings, an unrecognized tag,
\* a continuation line, a blank line and a code-fence line
CodecLines ==
    { <<"Verdict:", "approve">>, <<"VERDICT:", "revise">>, <<"Notes:", "fine">>,
      <<"Advance:", "yes">>, <<"carry", "on">>, <<>>, <<CodeFence>> }

CodecVariants == {"runtime_flow", "llm_interaction", "pipeline"}

\* the tag whose prefix the lowered line starts with, "none" when there is none
MatchedTag(line) ==
    IF line # <<>> /\ \E tag \in CodecTags : LowerWord(line[1]) = TagPrefix(tag)
    THEN CHOOSE tag \in CodecTags : LowerWord(line[1]) = TagPrefix(tag)
    ELSE "none"

\* the loop over text.splitlines(): result maps each tag to its list of parts
RECURSIVE ScanLines(_, _, _, _)
ScanLines(lines, variant, result, current) ==
    IF lines = <<>> THEN result
    ELSE LET stripped == Head(lines)
             matched == MatchedTag(stripped)
         IN
         IF matched # "none"
         THEN ScanLines(Tail(lines), variant,
                        [result EXCEPT ![matched] =
                            IF variant = "llm_interaction" THEN <<Tail(stripped)>>
                            ELSE Append(@, Tail(stripped))],
                        matched)
         ELSE IF current # "none" /\ (variant = "pipeline" \/ stripped # <<>>)
         THEN ScanLines(Tail(lines), variant,
                        [result EXCEPT ![current] = Append(@, stripped)], current)
         ELSE ScanLines(Tail(lines), variant, result, current)

\* sep.join(parts): " " joins words, "\n" stays as a word of its own
RECURSIVE JoinParts(_, _)
JoinParts(parts, sep) ==
    IF parts = <<>> THEN <<>>
    ELSE IF Len(parts) = 1 THEN parts[1]
    ELSE parts[1] \o sep \o JoinParts(Tail(parts), sep)

\* parse_sections(text, tags) in the variant named: the dict returned
parse_sections(lines, variant) ==
    LET result == ScanLines(lines, variant, [tag \in CodecTags |-> <<>>], "none")
        sep == IF variant = "pipeline" THEN <<"\n">> ELSE <<>>
    IN [tag \in {t \in CodecTags : result[t] # <<>>} |-> StripText(JoinParts(result[tag], sep))]

CodecInit ==
    /\ BudgetIdle
    /\ step = StepIdle
    /\ orch = OrchIdle
    /\ eng = EngIdle
    /\ loop = LoopIdle
    /\ gw = GwIdle
    /\ tracker = TrackerIdle
    /\ narr = NarrIdle
    /\ focus = FocusIdle
    /\ hist = HistIdle
    /\ summ = SummIdle
    /\ mv = MvIdle
    /\ codec \in [status : {"input"},
                  variant : {"none"},
                  lines : SeqsUpTo(CodecLines, MaxLines),
                  sections : {<<>>}]

\* parse_sections of orchestrator/runtime_flow/step.py
RuntimeFlowParseSections ==
    /\ UNCHANGED <<budgetVars, step, orch, eng, loop, gw, tracker, narr, focus, hist, summ, mv>>
    /\ codec.status = "input"
    /\ codec' = [codec EXCEPT !.status = "decoded", !.variant = "runtime_flow",
                              !.sections = parse_sections(codec.lines, "runtime_flow")]

\* parse_sections of orchestrator/llm_interaction/step.py
LlmInteractionParseSections ==
    /\ UNCHANGED <<budgetVars, step, orch, eng, loop, gw, tracker, narr, focus, hist, summ, mv>>
    /\ codec.status = "input"
    /\ codec' = [codec EXCEPT !.status = "decoded", !.variant = "llm_interaction",
                              !.sections = parse_sections(codec.lines, "llm_interaction")]

\* _parse_sections of orchestrator/pipeline.py
PipelineParseSections ==
    /\ UNCHANGED <<budgetVars, step, orch, eng, loop, gw, tracker, narr, focus, hist, summ, mv>>
    /\ codec.status = "input"
    /\ codec' = [codec EXCEPT !.status = "decoded", !.variant = "pipeline",
                              !.sections = parse_sections(codec.lines, "pipeline")]

CodecNext == RuntimeFlowParseSections \/ LlmInteractionParseSections \/ PipelineParseSections

SpecCodec == CodecInit /\ [][CodecNext]_vars

\* the lines on which the tag occurs
Occurrences(lines, tag) == {i \in 1..Len(lines) : MatchedTag(lines[i]) = tag}

\* the words of lines i..Len(lines) up to the next recognized tag line
RECURSIVE UpToNextTag(_, _)
UpToNextTag(lines, i) ==
    IF i > Len(lines) \/ MatchedTag(lines[i]) # "none" THEN <<>>
    ELSE lines[i] \o UpToNextTag(lines, i + 1)

\* the text after the colon of the tag on line i, up to the next recognized tag line
SectionAt(lines, i) == Tail(lines[i]) \o UpToNextTag(lines, i + 1)

\* the words of a decoded section, line breaks aside
Words(text) == SelectSeq(text, LAMBDA w : w \notin Whitespace)

\* C26: for every response text, also one in which a recognized tag occurs
\* more than once, the decoded value of each recognized tag is exactly the
\* text from after the colon of (an occurrence of) that tag up to the next
\* recognized tag line, matched case-insensitively, blank lines aside.
C26_SectionIsTextUpToNextTag ==
    codec.status = "decoded" =>
        \A tag \in CodecTags :
            IF Occurrences(codec.lines, tag) = {}
            THEN tag \notin DOMAIN codec.sections
            ELSE /\ tag \in DOMAIN codec.sections
                 /\ \E i \in Occurrences(codec.lines, tag) :
                        Words(codec.sections[tag]) = SectionAt(codec.lines, i)

FenceLine == <<CodeFence>>

\* C27: when the response text is a code-fenced block (it begins with a fence
\* marker) the fence lines are removed before tag scanning: no fence line
\* appears in the content of a decoded section.
C27_NoFenceInSections ==
    codec.status = "decoded" /\ codec.lines # <<>> /\ codec.lines[1] = FenceLine =>
        \A tag \in DOMAIN codec.sections :
            \A k \in 1..Len(codec.sections[tag]) : codec.sections[tag][k] # CodeFence

\* ------------------------------------------------------------------------
\* Move tool: move_impl (MoveTool_BasicMCP/server.py) with the EventLog
\* (event_log.py) and the StateStore snapshot (state_store.py)
\* ------------------------------------------------------------------------

\* the map: three locations in a row
MapNodes == {"A", "B", "C"}

MapEdges == { <<"A", "B">>, <<"B", "A">>, <<"B", "C">>, <<"C", "B">> }

\* MoveInput.to_id: a node of the map, or an id the map does not have
MoveTargets == MapNodes \cup {"Z"}

\* MoveInput.from_id: None (take player.location of the snapshot) or given
MoveOrigins == {"none", "A"}

\* MoveInput.state["blocked_nodes"]
BlockedNodeSets == { {}, {"B"} }

MoveInputs ==
    [to_id : MoveTargets, from_id : MoveOrigins, blocked_nodes : BlockedNodeSets, persist : BOOLEAN]

\* the nodes the breadth-first search reaches: a neighbour is entered unless
\* can_traverse refuses it (a blocked node)
RECURSIVE Reached(_, _)
Reached(visited, blocked_nodes) ==
    LET next == visited \cup
                {n \in MapNodes : n \notin blocked_nodes /\ \E c \in visited : <<c, n>> \in MapEdges}
    IN IF next = visited THEN visited ELSE Reached(next, blocked_nodes)

\* shortest_path_bfs(...).ok
shortest_path_bfs(start, goal, blocked_nodes) ==
    start = goal \/ goal \in Reached({start}, blocked_nodes)

\* _resolve_from_id: inp.from_id when given, else snapshot["player"]["location"]
ResolveFromId(inp, snapshot) == IF inp.from_id # "none" THEN inp.from_id ELSE snapshot.location

\* a version_after that counts blocked moves as well
VersionAfterAlwaysBump(version_before, ok) == version_before + 1

\* version_after = version_before + (1 if ok else 0)
VersionAfter(version_before, ok) == version_before + (IF ok THEN 1 ELSE 0)

\* a persist step that writes the snapshot where the log entry belongs
append_move_eventStateFirst(m, event) ==
    [m EXCEPT !.snapshot = [@ EXCEPT !.last_event_id = event.event_id]]

\* EventLog.append_move_event: one more line in the log file
append_move_event(m, event) == [m EXCEPT !.log = Append(@, event)]

\* an update that keeps the version
apply_updateNoBump(snapshot, new_location, event_id) ==
    [snapshot EXCEPT !.location = new_location, !.last_event_id = event_id]

\* StateStore.apply_update with the patch_fn of move_impl, bump_version=True:
\* the snapshot written
apply_update(snapshot, new_location, event_id) ==
    [version |-> snapshot.version + 1, location |-> new_location, last_event_id |-> event_id]

NoMove == [result |-> "none"]

\* a snapshot without last_event_id (event ids count from 1)
NoEventId == 0

MvInit ==
    /\ BudgetIdle
    /\ step = StepIdle
    /\ orch = OrchIdle
    /\ eng = EngIdle
    /\ loop = LoopIdle
    /\ gw = GwIdle
    /\ tracker = TrackerIdle
    /\ narr = NarrIdle
    /\ focus = FocusIdle
    /\ hist = HistIdle
    /\ summ = SummIdle
    /\ codec = CodecIdle
    /\ mv = [status |-> "idle",
             snapshot |-> [version |-> 0, location |-> "A", last_event_id |-> NoEventId],
             log |-> <<>>,
             calls |-> 0,
             snapshotBefore |-> [version |-> 0, location |-> "A", last_event_id |-> NoEventId],
             logBefore |-> <<>>,
             pending |-> NoMove,
             out |-> NoMove]

\* move_impl up to and including the log append (steps 1 to 9.1); a move that
\* is not persisted, one that is refused and one that raises end here
MoveImpl ==
    /\ UNCHANGED <<budgetVars, step, orch, eng, loop, gw, tracker, narr, focus, hist, summ, codec>>
    /\ mv.status = "idle"
    /\ mv.calls < MaxMoves
    /\ \E inp \in MoveInputs :
        LET event_id == mv.calls + 1
            from_id == ResolveFromId(inp, mv.snapshot)
            ok == shortest_path_bfs(from_id, inp.to_id, inp.blocked_nodes)
            new_location == IF ok THEN inp.to_id ELSE from_id
            version_before == mv.snapshot.version
            event == [event_id |-> event_id, from |-> from_id, to |-> inp.to_id, ok |-> ok,
                      state_version_before |-> version_before,
                      state_version_after |-> VersionAfter(version_before, ok)]
            called == [mv EXCEPT !.calls = @ + 1,
                                 !.snapshotBefore = mv.snapshot,
                                 !.logBefore = mv.log]
            result == [result |-> "returned", ok |-> ok, event_id |-> event_id,
                       from_id |-> from_id, to_id |-> inp.to_id,
                       new_location |-> new_location, persist |-> inp.persist]
        IN
        IF inp.to_id \notin MapNodes
        THEN mv' = [called EXCEPT !.out = [result |-> "ValueError"]]
        ELSE IF ~inp.persist
        THEN mv' = [called EXCEPT !.out = result]
        ELSE IF ok
        THEN mv' = [append_move_event(called, event) EXCEPT
                      !.status = "logged", !.pending = result, !.out = NoMove]
        ELSE mv' = [append_move_event(called, event) EXCEPT !.out = result]

\* move_impl step 9.2: the snapshot is written, move_impl returns
MoveWriteState ==
    /\ UNCHANGED <<budgetVars, step, orch, eng, loop, gw, tracker, narr, focus, hist, summ, codec>>
    /\ mv.status = "logged"
    /\ mv' = [mv EXCEPT
                !.snapshot = apply_update(@, mv.pending.new_location, mv.pending.event_id),
                !.out = mv.pending,
                !.pending = NoMove,
                !.status = "idle"]

\* the process stops between the log append and the snapshot write
MoveStop ==
    /\ UNCHANGED <<budgetVars, step, orch, eng, loop, gw, tracker, narr, focus, hist, summ, codec>>
    /\ mv.status = "logged"
    /\ mv' = [mv EXCEPT !.out = [result |-> "stopped"], !.pending = NoMove, !.status = "idle"]

MvNext == MoveImpl \/ MoveWriteState \/ MoveStop

SpecMove == MvInit /\ [][MvNext]_vars

LoggedEventIds == {mv.log[i].event_id : i \in 1..Len(mv.log)}

\* C28: for a persisted move the event-log entry is appended before the
\* snapshot is written: at every moment the last_event_id of the snapshot
\* names an event that is already in the log (and while the snapshot write
\* is pending the entry of the move is the last one of the log).
C28_LogBeforeSnapshot ==
    mv.status # "off" =>
        /\ mv.snapshot.last_event_id # NoEventId => mv.snapshot.last_event_id \in LoggedEventIds
        /\ mv.status = "logged" =>
                /\ mv.log # <<>>
                /\ mv.log[Len(mv.log)].event_id = mv.pending.event_id
                /\ mv.snapshot = mv.snapshotBefore

\* a persisted move has written its log entry and then its snapshot
C28_Witness ==
    /\ mv.status = "idle"
    /\ mv.out.result = "returned" /\ mv.out.ok /\ mv.out.persist
    /\ mv.snapshot.last_event_id = mv.out.event_id
    /\ mv.snapshot.last_event_id \in LoggedEventIds

\* move_impl has returned from a persisted move that succeeded
PersistedMoveDone ==
    mv.status = "idle" /\ mv.out.result = "returned" /\ mv.out.ok /\ mv.out.persist

\* C29: after a successful persisted move that started from snapshot version
\* v the snapshot has version v+1, player.location equal to the destination
\* and last_event_id equal to the event_id of the last log entry, whose
\* state_version_before is v and state_version_after is v+1.
C29_SnapshotAfterMove ==
    PersistedMoveDone =>
        LET v == mv.snapshotBefore.version
            last_event == mv.log[Len(mv.log)]
        IN /\ mv.snapshot.version = v + 1
           /\ mv.snapshot.location = mv.out.to_id
           /\ mv.snapshot.last_event_id = last_event.event_id
           /\ last_event.state_version_before = v
           /\ last_event.state_version_after = v + 1

\* a second persisted move succeeded, to another location
C29_Witness ==
    /\ PersistedMoveDone
    /\ mv.snapshotBefore.version = 1
    /\ mv.snapshot.location # mv.snapshotBefore.location

\* move_impl has returned ok=false
RefusedMoveDone == mv.status = "idle" /\ mv.out.result = "returned" /\ ~mv.out.ok

\* C30 as stated: a move that is blocked or unreachable returns ok=false with
\* new_location equal to the origin, leaves the persisted snapshot unchanged,
\* and still appends exactly one log entry whose state_version_after equals
\* its state_version_before.
C30_Original ==
    RefusedMoveDone =>
        /\ mv.out.new_location = mv.out.from_id
        /\ mv.snapshot = mv.snapshotBefore
        /\ Len(mv.log) = Len(mv.logBefore) + 1
        /\ SubSeq(mv.log, 1, Len(mv.logBefore)) = mv.logBefore
        /\ mv.log[Len(mv.log)].state_version_after = mv.log[Len(mv.log)].state_version_before

\* C30: a move that is blocked or unreachable returns ok=false with
\* new_location equal to the origin and leaves the persisted snapshot
\* unchanged; when the move is persisted (persist=true) it appends exactly one
\* log entry, whose state_version_after equals its state_version_before, and
\* when it is not persisted it leaves the log unchanged.
C30_RefusedMoveKeepsSnapshot ==
    RefusedMoveDone =>
        /\ mv.out.new_location = mv.out.from_id
        /\ mv.snapshot = mv.snapshotBefore
        /\ IF mv.out.persist
           THEN /\ Len(mv.log) = Len(mv.logBefore) + 1
                /\ SubSeq(mv.log, 1, Len(mv.logBefore)) = mv.logBefore
                /\ mv.log[Len(mv.log)].event_id = mv.out.event_id
                /\ ~mv.log[Len(mv.log)].ok
                /\ mv.log[Len(mv.log)].state_version_after = mv.log[Len(mv.log)].state_version_before
           ELSE mv.log = mv.logBefore

\* a persisted move was refused after an earlier persisted move had succeeded
C30_Witness ==
    /\ RefusedMoveDone
    /\ mv.out.persist
    /\ mv.snapshot.version = 1
    /\ Len(mv.log) = 2

\* ------------------------------------------------------------------------
\* Claims about the player's location in StoryEngine
\* ------------------------------------------------------------------------

\* C31: in StoryEngine the player's location changes during a turn only if
\* that turn's Validate verdict is approve; once the verdict of a turn is
\* known and is not approve (revise), the location is what it was before the
\* turn, through the rest of the turn and after it.
C31_LocationChangesOnlyOnApprove ==
    (eng.pc # "off" /\ eng.verdict # "none" /\ Lower(eng.verdict) # "approve")
        => eng.game_state.player_location = eng.locationBefore

\* the successive player locations are LOCATION keys, each one listed in the
\* connections of the one before it
TrailAlongConnections(trail) ==
    \A i \in 1..(Len(trail) - 1) : trail[i + 1] \in ConnectionsOf(trail[i])

\* C34: in StoryEngine, after any sequence of turns and tool calls,
\* player_location is the key of a LOCATION node, and every change of
\* player_location goes to a node listed in the connections of the previous
\* location.
C34_PlayerAtConnectedLocation ==
    eng.pc # "off" =>
        /\ eng.game_state.player_location \in NodeKeys
        /\ NodeTypeOf(eng.game_state.player_location) = "location"
        /\ TrailAlongConnections(eng.trail)

\* the second half of C34 alone: every change follows a connection
MovesFollowConnections ==
    eng.pc # "off" => TrailAlongConnections(eng.trail)

\* a state in which the player has moved twice
MovedTwice == eng.pc # "off" /\ Len(eng.trail) >= 3

\* ------------------------------------------------------------------------
\* Claims about the Step Engine and a backend that only returns empty content
\* ------------------------------------------------------------------------

\* C32: when the backend returns empty content on every call, a stage issues
\* exactly the gateway's attempt ceiling of backend calls and then aborts with
\* a fatal stage error; the Step Engine starts no further gateway call after
\* the gateway has raised its fatal error.
C32_EmptyBackendCallsOnce ==
    (step.status # "idle" /\ step.calls >= 1 /\ step.onlyEmpty) =>
        /\ step.status \in {"failed", "gateway_error"}
        /\ step.calls = 1
        /\ step.backendCalls = AdapterMaxAttempts

\* C40: in the attempt trace built by one LLMStep.run call (runtime_flow),
\* the attempt numbers are strictly increasing in list order, with no number
\* appearing twice, under every mix of gateway errors, empty responses and
\* validation failures.
C40_AttemptNumbersIncrease ==
    (step.status # "idle" /\ step.engine = "runtime_flow") =>
        \A i \in 1..Len(step.attempts), j \in 1..Len(step.attempts) :
            i < j => step.attempts[i].attempt < step.attempts[j].attempt

\* ------------------------------------------------------------------------
\* Claims about budget usage and handlers
\* ------------------------------------------------------------------------

\* the usage map after call i of the batch just executed
UsageAfterCall(i) ==
    IF i < Len(lastOp.batch) THEN lastOp.before[i + 1] ELSE usage

\* usage changes only in calls whose handler was invoked
UsageGrowsOnlyWhenInvoked ==
    lastOp.kind = "execute" =>
        \A i \in 1..Len(lastOp.batch) :
            UsageAfterCall(i) # lastOp.before[i] => invoked[i]

\* C33: budget usage for a tool grows only through calls whose handler was
\* actually invoked: a call to a tool name that has a limit but no registered
\* handler ends with status error and leaves usage[tool] unchanged.
C33_UsageOnlyForInvokedHandlers ==
    /\ UsageGrowsOnlyWhenInvoked
    /\ lastOp.kind = "execute" =>
          \A i \in 1..Len(lastOp.batch) :
              (/\ lastOp.batch[i].tool \in DOMAIN limits
               /\ lastOp.batch[i].tool \notin RegisteredTools)
              => /\ executions[i].status = "error"
                 /\ UsageAfterCall(i) = lastOp.before[i]

\* ------------------------------------------------------------------------
\* Claims about the version chain of the move log
\* ------------------------------------------------------------------------

\* the ok events of the log, in log order
OkEvents(log) == SelectSeq(log, LAMBDA e : e.ok)

\* C35: across any sequence of persisted moves, including one in which the
\* process stops between the log append and the snapshot write, the ok events
\* in the log form a gap-free version chain: each ok event's
\* state_version_before equals the previous ok event's state_version_after.
C35_GapFreeVersionChain ==
    mv.status # "off" =>
        LET oks == OkEvents(mv.log) IN
        \A i \in 2..Len(oks) :
            oks[i].state_version_before = oks[i - 1].state_version_after

\* ------------------------------------------------------------------------
\* Claims about History.maybe_summarize
\* ------------------------------------------------------------------------

\* C36: after a maybe_summarize call that stored a summary, the turn list
\* holds exactly min(keep_recent, previous length) turns, for every
\* keep_recent >= 0 (including keep_recent = 0).
C36_KeepsMinOfKeepRecentAndLength ==
    (hist.status = "ready" /\ hist.last = "summarized") =>
        Len(hist.turns) = Min(hist.keep_recent, Len(hist.before))

\* C37: if the summarizer call fails or returns empty text, maybe_summarize
\* leaves both the turn list and the previously stored summary unchanged;
\* turns are removed only by a call that stores a non-empty summary.
C37_FailedSummaryChangesNothing ==
    hist.status = "ready" =>
        /\ hist.last \in {"summarizer_failed", "summary_empty"} =>
              (hist.turns = hist.before /\ hist.summary = hist.summaryBefore)
        /\ (hist.last \in {"below_max_turns", "summarizer_failed", "summary_empty", "summarized"}
                /\ hist.turns # hist.before) =>
              (hist.last = "summarized" /\ hist.summary.set /\ hist.summary # hist.summaryBefore)

\* a summarizer that raised and one that returned empty text, each with a
\* summary stored earlier and turns in the list
C37_Witness ==
    /\ hist.status = "ready"
    /\ hist.last \in {"summarizer_failed", "summary_empty"}
    /\ hist.summaryBefore.set
    /\ Len(hist.before) >= hist.max_turns
    /\ Len(hist.before) > hist.keep_recent
    /\ hist.keep_recent > 0

\* ------------------------------------------------------------------------
\* Claims about SessionSummary.add
\* ------------------------------------------------------------------------

\* C38: SessionSummary.add terminates for every value of max_items and
\* max_chars (including 0 and negative values) and every entry length: no add
\* is left inside the loop of _trim.
C38_AddTerminates ==
    summ.status # "off" => summ.status = "ready"

\* the last call of add appended an entry (its text was not blank)
LastAdded == summ.added[Len(summ.added)]

Positive(ceiling) == ceiling.set => ceiling.value >= 1

\* C39 as stated: after SessionSummary.add of a non-blank text with positive
\* ceilings, the entry just added is present in the summary.
C39_Original ==
    (/\ summ.status \in {"ready", "trimming"}
     /\ summ.last = "added"
     /\ Positive(summ.max_items) /\ Positive(summ.max_chars))
    => /\ summ.events # <<>>
       /\ summ.events[Len(summ.events)] = LastAdded

\* C39: after SessionSummary.add of a non-blank text with positive ceilings
\* whose entry ("label: text") is by itself no longer than max_chars, the
\* entry just added is the last entry of the summary: trimming never removes
\* the newest entry.
C39_NewestEntryKept ==
    (/\ summ.status \in {"ready", "trimming"}
     /\ summ.last = "added"
     /\ Positive(summ.max_items) /\ Positive(summ.max_chars)
     /\ summ.max_chars.set => Len(LastAdded) <= summ.max_chars.value)
    => /\ summ.status = "ready"
       /\ summ.events # <<>>
       /\ summ.events[Len(summ.events)] = LastAdded

\* an add that trimmed older entries away and kept the one just added, under
\* two positive ceilings
C39_Witness ==
    /\ summ.status = "ready"
    /\ summ.last = "added"
    /\ summ.max_items.set /\ summ.max_items.value >= 1
    /\ summ.max_chars.set /\ summ.max_chars.value >= 1
    /\ Len(summ.added) >= 2
    /\ Len(summ.events) < Len(summ.added)
    /\ summ.events # <<>>
    /\ summ.events[Len(summ.events)] = LastAdded

====
